---- MODULE Spec2Model ----
(***************************************************************************)
(* openweather-exporter: the caching collection pipeline.                  *)
(*                                                                         *)
(* src/ holds several revisions of the collector.  The variable rev names  *)
(* the revision a behaviour runs and never changes:                        *)
(*   "collector.go"  src/collector/collector.go: one Collect loop with the *)
(*                   pollution and UV flags, fetching through the          *)
(*                   openweathermap client library;                        *)
(*   "part_007"      src/unnamed/part_007: Collect / cachedHttpRequest /   *)
(*                   collectOneCall / collectPollution with the fetchers   *)
(*                   of the same file (lines 221-311);                     *)
(*   "owm.go"        the Collect of part_007 with the fetchers of          *)
(*                   src/collector/owm.go.                                 *)
(* The TTL cache (github.com/jellydator/ttlcache/v2) and the HTTP client   *)
(* are collaborators: the cache follows the contract of spec section 4.1   *)
(* as configured in main (src/unnamed/part_009 lines 58-64), the upstream  *)
(* answers are inputs.                                                     *)
(***************************************************************************)
EXTENDS Integers, Sequences, FiniteSets, TLC

VARIABLES
    rev,            \* revision of the collector that runs
    settings,       \* Settings: DegreesUnit, EnablePol, EnableUV
    now,            \* wall clock, in seconds
    cache,          \* ttlcache: key -> NoItem or [val, expireAt]
    proc,           \* "serving", "exited" (log.Fatal) or "panicked"
    started,        \* number of Collect invocations started so far
    pc,             \* per scrape slot: position inside Collect
    idx,            \* per scrape slot: index of the location being visited
    held,           \* per scrape slot: the locals w, pd, uuv of Collect
    out,            \* per scrape slot: sample groups sent on ch, in order
    log,            \* per scrape slot: what happened to each key
    overlapped,     \* per scrape slot: another Collect ran during this one
    sid,            \* per scrape slot: sequence number of its Collect
    requests,       \* outbound requests issued, per key
    apiCallCounter, \* openweather_api_calls_total, per key
    sentUnits,      \* the units parameters sent upstream
    stored,         \* per key: what the last successful Cache.Set stored, and when
    win,            \* per key: the Collect that opened the entry and what it emitted
    faults,         \* upstream and cache failures injected so far
    bad,            \* per scrape slot: keys whose upstream answer was a failure
    ret,            \* what the last direct call of a fetcher returned
    boot,           \* startup: configured names, Locations resolved so far
    non2xx          \* per scrape slot: keys whose request got a non-2xx status

vars == <<rev, settings, now, cache, proc, started, pc, idx, held, out, log,
          overlapped, sid, requests, apiCallCounter, sentUnits, stored, win,
          faults, bad, ret, boot, non2xx>>

(***************************************************************************)
(* Bounds of the model.                                                    *)
(***************************************************************************)
MaxTime == 2
MaxScrapes == 2
MaxFaults == 1
CacheTTL == 2
MaxCalls == 3
MaxNames == 2
MaxNameLen == 2
MaxSets == 2

Scrapers == {1, 2}
Locations == <<"NYC", "SEA">>
LocNames == {Locations[i] : i \in 1..Len(Locations)}
Sources == {"onecall", "pollution", "uv"}
Keys == LocNames \X Sources
Revs == {"collector.go", "part_007", "owm.go"}
Units == {"C", "F", "K", "X"}


(***************************************************************************)
(* Go values.  A pointer to a snapshot is <<>> (nil) or <<v>>: the         *)
(* snapshot whose numeric fields all read v; v = 0 is the zero-valued      *)
(* struct json.Unmarshal leaves when the body carries none of the fields.  *)
(***************************************************************************)
Nil == <<>>
Ptr(v) == <<v>>
Deref(p) == p[1]

(***************************************************************************)
(* TTL cache, as configured by main.                                       *)
(***************************************************************************)
NoItem == [found |-> FALSE, val |-> Nil, expireAt |-> 0]

\* cache.SetTTL(time.Duration(ttl) * time.Second): the global TTL, in seconds
SetTTL_nanos == CacheTTL \div 1000000000
SetTTL == CacheTTL

\* cache.SkipTTLExtensionOnHit(true)
SkipTTLExtensionOnHit_off == FALSE
SkipTTLExtensionOnHit == TRUE

\* an item is present iff now < insertion time + ttl
Expired(item, t) == ~(t < item.expireAt)

\* Cache.Get: (value, nil) or (nil, ErrNotFound); expiry is decided on read
CacheGet(c, key, t) ==
    IF c[key].found /\ ~Expired(c[key], t)
    THEN [val |-> c[key].val, err |-> "nil"]
    ELSE [val |-> Nil, err |-> "notFound"]

\* the cache after Cache.Get: a hit extends the TTL unless extension is skipped
CacheAfterGet(c, key, t) ==
    IF c[key].found /\ ~Expired(c[key], t) /\ ~SkipTTLExtensionOnHit
    THEN [c EXCEPT ![key].expireAt = t + SetTTL]
    ELSE c

\* Cache.Set(key, value) with the global TTL: the item is replaced whole
CacheSet(c, key, p, t) ==
    [c EXCEPT ![key] = [found |-> TRUE, val |-> p, expireAt |-> t + SetTTL]]

\* the outcomes of Cache.Set: nil or an error
SetResults == {"nil", "error"}

\* `err != notFound || val != nil`: the branch that reads the cached value
IsHit_eq(r) == r.err = "notFound" \/ r.val # Nil
IsHit(r) == r.err # "notFound" \/ r.val # Nil

(***************************************************************************)
(* Upstream answers.  client.Get returns (nil, err) or a response with a   *)
(* status and a body; a body is well-formed JSON with the data ("good",    *)
(* carrying the reading val), well-formed JSON without it ("nodata", as    *)
(* the error object of a 401 or an empty list) or not JSON ("malformed").  *)
(* The upstream data changes from one request to the next: the n-th request *)
(* for a key is answered, when it is answered well, with the reading n.    *)
NetErr == [net |-> "err", status |-> 0, body |-> "none", val |-> 0]
Responses(reading) ==
    {NetErr, [net |-> "ok", status |-> 200, body |-> "good", val |-> reading]}
    \cup {[net |-> "ok", status |-> st, body |-> b, val |-> 0] :
             st \in {200, 401}, b \in {"nodata", "malformed"}}

\* DataUnits = map[string]string{"C": "metric", "F": "imperial", "K": "internal"}
DataUnits == [C |-> "metric", F |-> "imperial", K |-> "internal"]

\* what a fetcher call did and returned
\*   kind: "ok" (snapshot, nil), "err" (nil, error), "fatal" (log.Fatal), "panic"
FetchResult(kind, p, requested, counted, units) ==
    [kind |-> kind, val |-> p, requested |-> requested, counted |-> counted,
     units |-> units]

\* json.Unmarshal of the body into OneCallData, then &onecall.Current
ParseOneCall(resp, units) ==
    IF resp.body = "malformed"
    THEN FetchResult("err", Nil, TRUE, TRUE, units)
    ELSE FetchResult("ok", Ptr(resp.val), TRUE, TRUE, units)

\* src/collector/owm.go CurrentByCoordinates
CurrentByCoordinates_owm_late(unit, resp) ==
    IF resp.net = "err"
    THEN FetchResult("err", Nil, TRUE, FALSE,
                     IF unit \in DOMAIN DataUnits THEN DataUnits[unit] ELSE "")
    ELSE IF unit \notin DOMAIN DataUnits
    THEN FetchResult("err", Nil, TRUE, TRUE, "")
    ELSE ParseOneCall(resp, DataUnits[unit])
CurrentByCoordinates_owm(unit, resp) ==
    IF unit \notin DOMAIN DataUnits
    THEN FetchResult("err", Nil, FALSE, FALSE, "")
    ELSE IF resp.net = "err"
    THEN FetchResult("err", Nil, TRUE, FALSE, DataUnits[unit])
    ELSE ParseOneCall(resp, DataUnits[unit])

\* src/unnamed/part_007 CurrentByCoordinates: response.StatusCode is read
\* before response is tested for nil, and a non-2xx status is log.Fatal
CurrentByCoordinates_p7(unit, resp) ==
    IF unit \notin DOMAIN DataUnits
    THEN FetchResult("err", Nil, FALSE, FALSE, "")
    ELSE IF resp.net = "err"
    THEN FetchResult("panic", Nil, TRUE, FALSE, DataUnits[unit])
    ELSE IF ~(resp.status >= 200 /\ resp.status < 300)
    THEN FetchResult("fatal", Nil, TRUE, FALSE, DataUnits[unit])
    ELSE ParseOneCall(resp, DataUnits[unit])

\* PollutionByCoordinates (the same in owm.go and part_007): no unit, and
\* &pollution.List[0] indexes the parsed list without testing its length
PollutionByCoordinates(resp) ==
    IF resp.net = "err"
    THEN FetchResult("err", Nil, TRUE, FALSE, "")
    ELSE IF resp.body = "malformed"
    THEN FetchResult("err", Nil, TRUE, TRUE, "")
    ELSE IF resp.body = "nodata"
    THEN FetchResult("panic", Nil, TRUE, TRUE, "")
    ELSE FetchResult("ok", Ptr(resp.val), TRUE, TRUE, "")

\* the weather fetcher of a revision of part_007's Collect
CurrentByCoordinates(r, unit, resp) ==
    IF r = "part_007" THEN CurrentByCoordinates_p7(unit, resp)
    ELSE CurrentByCoordinates_owm(unit, resp)

(***************************************************************************)
(* collector.go fetches through the openweathermap client library: a call  *)
(* returns a filled snapshot or an error.  owm.NewCurrent refuses a unit   *)
(* that is not C, F or K, and Collect answers that with log.Fatal.         *)
(***************************************************************************)
LibResults(reading) == {[kind |-> "err", val |-> Nil],
                        [kind |-> "ok", val |-> Ptr(reading)]}
NewCurrent(unit) == IF unit \in DOMAIN DataUnits THEN "nil" ELSE "error"

(***************************************************************************)
(* Metric catalogue.                                                       *)
(***************************************************************************)
BaseNames ==
    <<"openweather_temperature", "openweather_humidity", "openweather_feelslike",
      "openweather_pressure", "openweather_windspeed", "openweather_rain1h",
      "openweather_snow1h", "openweather_winddegree", "openweather_cloudiness",
      "openweather_sunrise", "openweather_sunset", "openweather_currentconditions">>
PollutionNames ==
    <<"openweather_pollution_airqualityindex", "openweather_pollution_carbonmonoxide",
      "openweather_pollution_nitrogenmonoxide", "openweather_pollution_nitrogendioxide",
      "openweather_pollution_ozone", "openweather_pollution_sulphurdioxide",
      "openweather_pollution_pm25", "openweather_pollution_pm10",
      "openweather_pollution_nh3">>
UVNames == <<"openweather_ultraviolet_index">>

Range(q) == {q[i] : i \in 1..Len(q)}

\* prometheus.NewDesc(name, help, labels, nil)
NewDesc(name) ==
    [name |-> name,
     labels |-> IF name = "openweather_currentconditions"
                THEN <<"location", "currentconditions">> ELSE <<"location">>]

\* collector.go Describe: the descriptors sent on ch, in order
Describe_collector ==
    <<"openweather_temperature", "openweather_humidity", "openweather_feelslike",
      "openweather_pressure", "openweather_windspeed", "openweather_rain1h",
      "openweather_winddegree", "openweather_cloudiness",
      "openweather_sunrise", "openweather_sunset", "openweather_currentconditions">>
    \o PollutionNames \o UVNames

\* collector.go Collect: the metrics sent for one source of a location
CollectNames_collector(src) ==
    IF src = "onecall"
    THEN <<"openweather_temperature", "openweather_humidity", "openweather_feelslike",
           "openweather_pressure", "openweather_windspeed", "openweather_rain1h",
           "openweather_winddegree", "openweather_cloudiness", "openweather_sunrise",
           "openweather_sunset", "openweather_snow1h", "openweather_currentconditions">>
    ELSE IF src = "pollution" THEN PollutionNames
    ELSE UVNames

\* metrics.go OneCallGauges: the table of the weather source
OneCallGauges ==
    <<"openweather_temperature", "openweather_humidity", "openweather_feelslike",
      "openweather_pressure", "openweather_windspeed", "openweather_rain1h",
      "openweather_snow1h", "openweather_winddegree", "openweather_cloudiness",
      "openweather_sunrise", "openweather_sunset", "openweather_ultraviolet_index",
      "openweather_currentconditions">>

\* metrics.go PollutionGauges: the table of the pollution source
PollutionGauges == PollutionNames

\* NewOpenweatherCollector of part_007: the tables built per location
oneCallMetrics(st) == OneCallGauges
pollutionMetrics(st) == IF st.EnablePol THEN PollutionGauges ELSE <<>>

\* Describe: the set of descriptors a revision advertises
Describe(r, st) ==
    IF r = "collector.go"
    THEN {NewDesc(n) : n \in Range(Describe_collector)}
    ELSE {NewDesc(n) : n \in Range(oneCallMetrics(st)) \cup Range(pollutionMetrics(st))}

\* the metric names one emitted group stands for
GroupNames(r, st, src) ==
    IF r = "collector.go" THEN CollectNames_collector(src)
    ELSE IF src = "onecall" THEN oneCallMetrics(st)
    ELSE pollutionMetrics(st)

\* the metric names of the samples sent of a group: the first g.n of its table
SentNames(r, st, g) == {GroupNames(r, st, g.src)[i] : i \in 1..g.n}

\* the samples sent of a group, labelled with the location, valued from the
\* snapshot
Samples(r, st, g) ==
    {[name |-> n, location |-> g.loc,
      value |-> IF n = "openweather_currentconditions" THEN 0 ELSE Deref(g.val)] :
        n \in SentNames(r, st, g)}

(***************************************************************************)
(* State after construction: main has parsed the flags, built the cache    *)
(* and registered the collector; nothing is cached, no scrape has run.     *)
(* Collects that overlap meet only on the keys of a location they both     *)
(* visit: the overlapping Collects run over one configured location, the   *)
(* Collects over a list of locations run one after the other (SpecRun).    *)
(***************************************************************************)
\* the locals of a Collect: the snapshots, and the ordinal of the request it
\* waits for
NoLocals == [w |-> Nil, pd |-> Nil, uuv |-> Nil, req |-> 0, status |-> 0]
NoLog == [k \in Keys |-> "none"]
NoStore == [set |-> FALSE, val |-> Nil, at |-> 0, by |-> 0, readAt |-> 0]
NoRet == [src |-> "", kind |-> "none", val |-> Nil]
NoWin == [opener |-> 0, emitted |-> Nil]

\* the collector NewOpenweatherCollector builds from the names given
BootedWith(names) ==
    [names |-> names, geo |-> "nominatim.go", idx |-> Len(names) + 1,
     res |-> [i \in 1..Len(names) |-> [Location |-> names[i], Latitude |-> 1]]]

\* the startup that resolved every configured name
Booted == [names |-> Locations, geo |-> "nominatim.go", idx |-> Len(Locations) + 1,
           res |-> [i \in 1..Len(Locations) |-> [Location |-> Locations[i], Latitude |-> 1]]]

\* the settings main can give the collector: collector.go takes the two flags
\* as arguments; the Settings literal of part_009 names DegreesUnit, Language
\* and ApiKey only, so EnablePol keeps its zero value
SettingsOf(r) ==
    IF r = "collector.go"
    THEN [DegreesUnit : {"F", "X"}, EnablePol : BOOLEAN, EnableUV : BOOLEAN]
    ELSE [DegreesUnit : {"F", "X"}, EnablePol : {FALSE}, EnableUV : {FALSE}]

Init ==
    /\ rev \in Revs
    /\ settings \in SettingsOf(rev)
    /\ now = 0
    /\ cache = [k \in Keys |-> NoItem]
    /\ proc = "serving"
    /\ started = 0
    /\ pc = [s \in Scrapers |-> "idle"]
    /\ idx = [s \in Scrapers |-> 1]
    /\ held = [s \in Scrapers |-> NoLocals]
    /\ out = [s \in Scrapers |-> <<>>]
    /\ log = [s \in Scrapers |-> NoLog]
    /\ overlapped = [s \in Scrapers |-> FALSE]
    /\ sid = [s \in Scrapers |-> 0]
    /\ requests = [k \in Keys |-> 0]
    /\ apiCallCounter = [k \in Keys |-> 0]
    /\ sentUnits = {}
    /\ stored = [k \in Keys |-> NoStore]
    /\ win = [k \in Keys |-> NoWin]
    /\ faults = 0
    /\ bad = [s \in Scrapers |-> {}]
    /\ ret = NoRet
    /\ boot = BootedWith(<<Locations[1]>>)
    /\ non2xx = [s \in Scrapers |-> {}]

Active(s) == pc[s] \notin {"idle", "done"}
Loc(s) == boot.res[idx[s]].Location
\* the samples sent from snapshot p for a source of a location: the first n
\* metrics of the source's table
Group(loc, src, p, n) == [loc |-> loc, src |-> src, val |-> p, n |-> n]

\* the time passes
Tick ==
    /\ proc = "serving"
    /\ UNCHANGED <<boot, non2xx>>
    /\ now < MaxTime
    /\ now' = now + 1
    /\ UNCHANGED <<rev, settings, cache, proc, started, pc, idx, held, out, log,
                   overlapped, sid, requests, apiCallCounter, sentUnits, stored, win,
                   faults, bad, ret>>

\* a scrape request arrives: the registry calls Collect, in the lowest free slot
Start(s) ==
    /\ proc = "serving"
    /\ UNCHANGED boot
    /\ ~Active(s)
    /\ \A t \in Scrapers : t < s => Active(t)
    /\ started < MaxScrapes
    /\ started' = started + 1
    /\ sid' = [sid EXCEPT ![s] = started + 1]
    /\ pc' = [pc EXCEPT ![s] = "lookup"]
    /\ idx' = [idx EXCEPT ![s] = 1]
    /\ held' = [held EXCEPT ![s] = NoLocals]
    /\ out' = [out EXCEPT ![s] = <<>>]
    /\ log' = [log EXCEPT ![s] = NoLog]
    /\ bad' = [bad EXCEPT ![s] = {}]
    /\ non2xx' = [non2xx EXCEPT ![s] = {}]
    /\ overlapped' = [t \in Scrapers |->
                        IF t = s THEN \E u \in Scrapers \ {s} : Active(u)
                        ELSE Active(t) \/ overlapped[t]]
    /\ UNCHANGED <<rev, settings, now, cache, proc, requests, apiCallCounter,
                   sentUnits, stored, win, faults, ret>>

\* `for _, location := range collector.Locations`: the next iteration, or return
NextLocation(s, i) ==
    IF i < Len(boot.res)
    THEN /\ pc' = [pc EXCEPT ![s] = "lookup"]
         /\ idx' = [idx EXCEPT ![s] = i + 1]
         /\ held' = [held EXCEPT ![s] = NoLocals]
    ELSE /\ pc' = [pc EXCEPT ![s] = "done"]
         /\ idx' = idx
         /\ held' = [held EXCEPT ![s] = NoLocals]

\* the entry's opener records what it emitted for the key
WinEmitted(w, s, groups) ==
    [k \in Keys |->
        LET js == {j \in 1..Len(groups) : <<groups[j].loc, groups[j].src>> = k}
        IN  IF w[k].opener = sid[s] /\ js # {}
            THEN [w[k] EXCEPT !.emitted = groups[CHOOSE j \in js : TRUE].val]
            ELSE w[k]]

\* what client.Get returns before the body is read: (nil, err), or a response
\* with its status
HeadOf(resp) == [net |-> resp.net, status |-> resp.status]
Heads == {HeadOf(r) : r \in Responses(1)}
WithHead(reading, h) == {r \in Responses(reading) : HeadOf(r) = h}
AnyWithHead(reading, h) == CHOOSE r \in WithHead(reading, h) : TRUE

\* the failures injected into one fetch: a transport error or a non-200
\* status when client.Get returns; after a 200, a body that is not the data
\* or a failing Cache.Set
HeadFault(h) == IF h.net = "err" \/ h.status # 200 THEN 1 ELSE 0
BodyFault(status, resp, setres) ==
    IF status # 200 THEN 0
    ELSE IF resp.body # "good" \/ setres # "nil" THEN 1 ELSE 0

\* an upstream answer that is not a usable reading
Failed(resp) == resp.body # "good"
FailedHead(h) == h.net = "err" \/ h.status # 200

\* a response arrived and its status is outside 200..299
Non2xx(resp) == resp.net = "ok" /\ ~(resp.status >= 200 /\ resp.status < 300)

\* the record of a Cache.Set that succeeded, and of the reads that found it
Stored(p, t, by) == [set |-> TRUE, val |-> p, at |-> t, by |-> by, readAt |-> t]
ReadAt(st, ks, t) == [k \in Keys |-> IF k \in ks THEN [st[k] EXCEPT !.readAt = t]
                                     ELSE st[k]]

\* an error of Cache.Set is returned to the caller (part_007) or followed by
\* `continue` (collector.go): the iteration sends no metric for the pair
SetErrorAborts(setres) == setres = "error"

\* the cache after the miss branch: Cache.Set runs only when the fetch returned
\* no error, with the snapshot it returned
CacheAfterFetch_always(c, key, kind, p, setres, t) ==
    IF setres = "nil" THEN CacheSet(c, key, p, t) ELSE c
CacheAfterFetch(c, key, kind, p, setres, t) ==
    IF kind = "ok" /\ setres = "nil" THEN CacheSet(c, key, p, t) ELSE c

InjectedLib(res, setres) ==
    IF res.kind = "ok" THEN (IF setres = "nil" THEN 0 ELSE 1)
    ELSE (IF setres = "nil" THEN 1 ELSE MaxFaults + 1)

(***************************************************************************)
(* part_007: Collect, collectOneCall, collectPollution, cachedHttpRequest. *)
(* A Collect gives way to the other goroutines and to the clock at each    *)
(* Cache.Get, while its request is on the network, and where it sends on   *)
(* the channel: one action for each of these.                              *)
(***************************************************************************)
IsGen == rev \in {"part_007", "owm.go"}
GetPc(src) == IF src = "onecall" THEN "lookup"
              ELSE IF src = "pollution" THEN "polget" ELSE "uvget"
ReqPc(src) == IF src = "onecall" THEN "reqW"
              ELSE IF src = "pollution" THEN "reqP" ELSE "reqU"
WaitPc(src) == IF src = "onecall" THEN "waitW"
               ELSE IF src = "pollution" THEN "waitP" ELSE "waitU"
BodyPc(src) == IF src = "onecall" THEN "bodyW"
               ELSE IF src = "pollution" THEN "bodyP" ELSE "bodyU"
SendPc(src) == IF src = "onecall" THEN "sendW"
               ELSE IF src = "pollution" THEN "sendP" ELSE "sendU"

\* the local a source's snapshot is held in
Local(h, src) == IF src = "onecall" THEN h.w
                 ELSE IF src = "pollution" THEN h.pd ELSE h.uuv
MonoLocal(h, src, p) == IF src = "onecall" THEN [h EXCEPT !.w = p]
                        ELSE IF src = "pollution" THEN [h EXCEPT !.pd = p]
                        ELSE [h EXCEPT !.uuv = p]

\* Collect: after collectOneCall comes collectPollution when EnablePol is
\* set, then the next location
GenAdvance(s, src) ==
    IF src = "onecall" /\ settings.EnablePol
    THEN /\ pc' = [pc EXCEPT ![s] = "polget"]
         /\ idx' = idx
         /\ held' = [held EXCEPT ![s] = NoLocals]
    ELSE NextLocation(s, idx[s])

\* a fetch that returned an error: part_007 returns from the collect function,
\* collector.go continues with the next location
OnFetchError_retry(s, src) ==
    /\ pc' = [pc EXCEPT ![s] = ReqPc(src)]
    /\ UNCHANGED <<idx, held>>
OnFetchError(s, src) ==
    IF IsGen THEN GenAdvance(s, src) ELSE NextLocation(s, idx[s])

\* the fetcher of a source of part_007's Collect
Fetcher(src, resp) ==
    IF src = "onecall" THEN CurrentByCoordinates(rev, settings.DegreesUnit, resp)
    ELSE PollutionByCoordinates(resp)

\* cachedHttpRequest, the Cache.Get: a hit returns the cached value to the
\* collect function; on a miss request() follows
GenLookup(s, src) ==
    /\ proc = "serving"
    /\ IsGen
    /\ pc[s] = GetPc(src)
    /\ LET key == <<Loc(s), src>>
           r == CacheGet(cache, key, now)
       IN  /\ cache' = CacheAfterGet(cache, key, now)
           /\ IF IsHit(r)
              THEN IF r.val = Nil
                   THEN /\ proc' = "panicked"
                        /\ UNCHANGED <<pc, held, log>>
                   ELSE /\ held' = [held EXCEPT ![s] = MonoLocal(@, src, r.val)]
                        /\ log' = [log EXCEPT ![s][key] = "hit"]
                        /\ pc' = [pc EXCEPT ![s] = SendPc(src)]
                        /\ proc' = proc
              ELSE /\ pc' = [pc EXCEPT ![s] = ReqPc(src)]
                   /\ log' = [log EXCEPT ![s][key] = "miss"]
                   /\ UNCHANGED <<proc, held>>
           /\ stored' = IF IsHit(r) THEN ReadAt(stored, {key}, now) ELSE stored
    /\ UNCHANGED <<rev, settings, now, started, idx, out, overlapped, sid, requests,
                   apiCallCounter, sentUnits, win, faults, bad, ret, boot, non2xx>>

\* request(), up to client.Get: the fetcher validates the unit, builds the URL
\* and puts the request on the network; an invalid unit returns an error and
\* sends nothing
GenRequest(s, src) ==
    /\ proc = "serving"
    /\ IsGen
    /\ pc[s] = ReqPc(src)
    /\ LET key == <<Loc(s), src>>
           f == Fetcher(src, NetErr)
       IN  IF f.requested
           THEN /\ requests' = [requests EXCEPT ![key] = @ + 1]
                /\ sentUnits' = IF src = "onecall" THEN sentUnits \cup {f.units}
                                ELSE sentUnits
                /\ held' = [held EXCEPT ![s].req = requests[key] + 1]
                /\ pc' = [pc EXCEPT ![s] = WaitPc(src)]
                /\ UNCHANGED <<idx, log>>
           ELSE /\ log' = [log EXCEPT ![s][key] = "fetchErr"]
                /\ OnFetchError(s, src)
                /\ UNCHANGED <<requests, sentUnits>>
    /\ UNCHANGED <<rev, settings, now, cache, proc, started, out, overlapped, sid,
                   apiCallCounter, stored, win, faults, bad, ret, boot, non2xx>>

\* client.Get returns, with (nil, err) or with a response whose status has
\* arrived: part_007 tests the status, the call is counted, and the fetcher
\* goes on to read the body from the network; a transport error is returned
\* to the collect function (part_007's weather fetcher panics on it)
GenHeaders(s, src, h) ==
    /\ proc = "serving"
    /\ IsGen
    /\ pc[s] = WaitPc(src)
    /\ h \in Heads
    /\ HeadFault(h) \in 0..(MaxFaults - faults)
    /\ faults' = faults + HeadFault(h)
    /\ LET key == <<Loc(s), src>>
           f == Fetcher(src, AnyWithHead(held[s].req, h))
       IN  /\ apiCallCounter' = IF f.counted THEN [apiCallCounter EXCEPT ![key] = @ + 1]
                                ELSE apiCallCounter
           /\ bad' = IF FailedHead(h) THEN [bad EXCEPT ![s] = @ \cup {key}] ELSE bad
           /\ non2xx' = IF Non2xx(h) THEN [non2xx EXCEPT ![s] = @ \cup {key}]
                        ELSE non2xx
           /\ IF f.counted
              THEN /\ held' = [held EXCEPT ![s].status = h.status]
                   /\ pc' = [pc EXCEPT ![s] = BodyPc(src)]
                   /\ UNCHANGED <<proc, idx, log, cache>>
              ELSE IF f.kind = "fatal"
              THEN /\ proc' = "exited"
                   /\ UNCHANGED <<pc, idx, held, log, cache>>
              ELSE IF f.kind = "panic"
              THEN /\ proc' = "panicked"
                   /\ UNCHANGED <<pc, idx, held, log, cache>>
              ELSE /\ log' = [log EXCEPT ![s][key] = "fetchErr"]
                   /\ cache' = CacheAfterFetch(cache, key, f.kind, f.val, "nil", now)
                   /\ OnFetchError(s, src)
                   /\ proc' = proc
    /\ UNCHANGED <<rev, settings, now, started, out, overlapped, sid, requests,
                   sentUnits, stored, win, ret, boot>>

\* io.ReadAll returns: the body is parsed and the fetcher returns; then
\* Cache.Set of the snapshot, and the return to the collect function
GenBody(s, src, resp, setres) ==
    /\ proc = "serving"
    /\ IsGen
    /\ pc[s] = BodyPc(src)
    /\ resp \in WithHead(held[s].req, [net |-> "ok", status |-> held[s].status])
    /\ Fetcher(src, resp).kind # "ok" => setres = "nil"
    /\ BodyFault(held[s].status, resp, setres) \in 0..(MaxFaults - faults)
    /\ faults' = faults + BodyFault(held[s].status, resp, setres)
    /\ LET key == <<Loc(s), src>>
           f == Fetcher(src, resp)
       IN  /\ bad' = IF Failed(resp) THEN [bad EXCEPT ![s] = @ \cup {key}] ELSE bad
           /\ cache' = CacheAfterFetch(cache, key, f.kind, f.val, setres, now)
           /\ IF f.kind = "panic"
              THEN /\ proc' = "panicked"
                   /\ UNCHANGED <<pc, idx, held, log, stored, win>>
              ELSE IF f.kind = "err"
              THEN /\ log' = [log EXCEPT ![s][key] = "fetchErr"]
                   /\ OnFetchError(s, src)
                   /\ UNCHANGED <<proc, stored, win>>
              ELSE IF SetErrorAborts(setres)
              THEN /\ log' = [log EXCEPT ![s][key] = "setErr"]
                   /\ GenAdvance(s, src)
                   /\ UNCHANGED <<proc, stored, win>>
              ELSE /\ stored' = IF setres = "nil"
                                THEN [stored EXCEPT ![key] = Stored(f.val, now, sid[s])]
                                ELSE stored
                   /\ win' = IF setres = "nil"
                             THEN [win EXCEPT ![key] = [opener |-> sid[s], emitted |-> Nil]]
                             ELSE win
                   /\ log' = [log EXCEPT ![s][key] =
                                 IF setres = "nil" THEN "fetched" ELSE "setErr"]
                   /\ held' = [held EXCEPT ![s] = [MonoLocal(@, src, f.val)
                                                      EXCEPT !.req = 0, !.status = 0]]
                   /\ pc' = [pc EXCEPT ![s] = SendPc(src)]
                   /\ UNCHANGED <<proc, idx>>
    /\ UNCHANGED <<rev, settings, now, started, out, overlapped, sid, requests,
                   apiCallCounter, sentUnits, non2xx, ret, boot>>

\* the channel after one more `ch <-` of the table of src, from snapshot p:
\* out[s] holds one group per table, n counting the samples sent of it
Sending(s) ==
    /\ out[s] # <<>>
    /\ out[s][Len(out[s])].n < Len(GroupNames(rev, settings, out[s][Len(out[s])].src))
SendOne(s, src, p) ==
    IF Sending(s) THEN [out[s] EXCEPT ![Len(out[s])].n = @ + 1]
    ELSE Append(out[s], Group(Loc(s), src, p, 1))
TableSent(q) == q[Len(q)].n = Len(GroupNames(rev, settings, q[Len(q)].src))

\* collectOneCall, collectPollution: one turn of the loop over the source's
\* table, `ch <- metric.FromResponse(w)`
GenSend(s, src) ==
    /\ proc = "serving"
    /\ IsGen
    /\ pc[s] = SendPc(src)
    /\ LET q == SendOne(s, src, Local(held[s], src))
       IN  /\ out' = [out EXCEPT ![s] = q]
           /\ IF TableSent(q)
              THEN /\ win' = WinEmitted(win, s, <<q[Len(q)]>>)
                   /\ GenAdvance(s, src)
              ELSE UNCHANGED <<win, pc, idx, held>>
    /\ UNCHANGED <<rev, settings, now, cache, proc, started, log, overlapped, sid,
                   requests, apiCallCounter, sentUnits, stored, faults, bad, ret,
                   boot, non2xx>>

(***************************************************************************)
(* collector.go: Collect.                                                  *)
(***************************************************************************)
IsMono == rev = "collector.go"

\* the source enabled after src, "" when none is left
MonoNextSrc(st, src) ==
    IF src = "onecall" /\ st.EnablePol THEN "pollution"
    ELSE IF src \in {"onecall", "pollution"} /\ st.EnableUV THEN "uv"
    ELSE ""

\* Collect, the Cache.Get of the weather key and the branch it selects
MonoLookup(s) ==
    /\ proc = "serving"
    /\ IsMono
    /\ pc[s] = "lookup"
    /\ LET kw == <<Loc(s), "onecall">>
           r == CacheGet(cache, kw, now)
           nxt == MonoNextSrc(settings, "onecall")
       IN  /\ cache' = CacheAfterGet(cache, kw, now)
           /\ IF IsHit(r)
              THEN IF r.val = Nil
                   THEN /\ proc' = "panicked"
                        /\ UNCHANGED <<pc, held, log, stored>>
                   ELSE /\ held' = [held EXCEPT ![s] = MonoLocal(@, "onecall", r.val)]
                        /\ log' = [log EXCEPT ![s][kw] = "hit"]
                        /\ stored' = ReadAt(stored, {kw}, now)
                        /\ pc' = [pc EXCEPT ![s] = IF nxt = "" THEN "sendW"
                                                   ELSE GetPc(nxt)]
                        /\ proc' = proc
              ELSE /\ pc' = [pc EXCEPT ![s] = "reqW"]
                   /\ log' = [log EXCEPT ![s][kw] = "miss"]
                   /\ UNCHANGED <<proc, held, stored>>
    /\ UNCHANGED <<rev, settings, now, started, idx, out, overlapped, sid, requests,
                   apiCallCounter, sentUnits, win, faults, bad, ret, boot, non2xx>>

\* Collect, the hit branch: the Cache.Get of the pollution key or of the UV
\* key; the local stays nil when the key is not found
MonoGet(s, src) ==
    /\ proc = "serving"
    /\ IsMono
    /\ src \in {"pollution", "uv"}
    /\ pc[s] = GetPc(src)
    /\ LET key == <<Loc(s), src>>
           r == CacheGet(cache, key, now)
           nxt == MonoNextSrc(settings, src)
       IN  /\ cache' = CacheAfterGet(cache, key, now)
           /\ IF IsHit(r) /\ r.val = Nil
              THEN /\ proc' = "panicked"
                   /\ UNCHANGED <<pc, held, log, stored>>
              ELSE /\ held' = IF IsHit(r) THEN [held EXCEPT ![s] = MonoLocal(@, src, r.val)]
                              ELSE held
                   /\ log' = [log EXCEPT ![s][key] = IF IsHit(r) THEN "hit" ELSE "miss"]
                   /\ stored' = IF IsHit(r) THEN ReadAt(stored, {key}, now) ELSE stored
                   /\ pc' = [pc EXCEPT ![s] = IF nxt = "" THEN "sendW" ELSE GetPc(nxt)]
                   /\ proc' = proc
    /\ UNCHANGED <<rev, settings, now, started, idx, out, overlapped, sid, requests,
                   apiCallCounter, sentUnits, win, faults, bad, ret, boot, non2xx>>

\* Collect, the miss branch, one source: the library client is built and its
\* call puts the request on the network; an error of owm.NewCurrent is
\* log.Fatal
MonoRequest(s, src) ==
    /\ proc = "serving"
    /\ IsMono
    /\ pc[s] = ReqPc(src)
    /\ LET key == <<Loc(s), src>>
       IN  IF src = "onecall" /\ NewCurrent(settings.DegreesUnit) = "error"
           THEN /\ proc' = "exited"
                /\ UNCHANGED <<pc, held, requests, sentUnits>>
           ELSE /\ requests' = [requests EXCEPT ![key] = @ + 1]
                /\ sentUnits' = IF src = "onecall"
                                THEN sentUnits \cup {DataUnits[settings.DegreesUnit]}
                                ELSE sentUnits
                /\ held' = [held EXCEPT ![s].req = requests[key] + 1]
                /\ pc' = [pc EXCEPT ![s] = WaitPc(src)]
                /\ proc' = proc
    /\ UNCHANGED <<rev, settings, now, cache, started, idx, out, log, overlapped, sid,
                   apiCallCounter, stored, win, faults, bad, ret, boot, non2xx>>

\* the library call returns, then Cache.Set; any error is logged and followed
\* by `continue`
MonoAnswer(s, src, res, setres) ==
    /\ proc = "serving"
    /\ IsMono
    /\ pc[s] = WaitPc(src)
    /\ res \in LibResults(held[s].req)
    /\ InjectedLib(res, setres) \in 0..(MaxFaults - faults)
    /\ faults' = faults + InjectedLib(res, setres)
    /\ LET key == <<Loc(s), src>>
           nxt == MonoNextSrc(settings, src)
       IN  /\ bad' = IF res.kind = "err" THEN [bad EXCEPT ![s] = @ \cup {key}] ELSE bad
           /\ cache' = CacheAfterFetch(cache, key, res.kind, res.val, setres, now)
           /\ IF res.kind = "err"
              THEN /\ log' = [log EXCEPT ![s][key] = "fetchErr"]
                   /\ OnFetchError(s, src)
                   /\ UNCHANGED <<stored, win>>
              ELSE IF SetErrorAborts(setres)
              THEN /\ log' = [log EXCEPT ![s][key] = "setErr"]
                   /\ NextLocation(s, idx[s])
                   /\ UNCHANGED <<stored, win>>
              ELSE /\ stored' = IF setres = "nil"
                                THEN [stored EXCEPT ![key] = Stored(res.val, now, sid[s])]
                                ELSE stored
                   /\ win' = IF setres = "nil"
                             THEN [win EXCEPT ![key] = [opener |-> sid[s], emitted |-> Nil]]
                             ELSE win
                   /\ log' = [log EXCEPT ![s][key] =
                                 IF setres = "nil" THEN "fetched" ELSE "setErr"]
                   /\ held' = [held EXCEPT ![s] = [MonoLocal(@, src, res.val) EXCEPT !.req = 0]]
                   /\ pc' = [pc EXCEPT ![s] = IF nxt = "" THEN "sendW" ELSE ReqPc(nxt)]
                   /\ idx' = idx
    /\ UNCHANGED <<rev, settings, now, proc, started, out, overlapped, sid, requests,
                   apiCallCounter, sentUnits, ret, boot, non2xx>>

\* one of the `ch <- prometheus.MustNewConstMetric(...)` lines that end an
\* iteration: the weather metrics from w, then the pollution metrics from
\* pd.List[0] and the UV metric from uuv.Value when enabled; a nil pointer
\* panics there
MonoSend(s, src) ==
    /\ proc = "serving"
    /\ IsMono
    /\ pc[s] = SendPc(src)
    /\ LET p == Local(held[s], src)
           q == SendOne(s, src, p)
           nxt == MonoNextSrc(settings, src)
       IN  IF p = Nil
           THEN /\ proc' = "panicked"
                /\ UNCHANGED <<pc, idx, held, out, win>>
           ELSE /\ out' = [out EXCEPT ![s] = q]
                /\ proc' = proc
                /\ IF ~TableSent(q) THEN UNCHANGED <<win, pc, idx, held>>
                   ELSE /\ win' = WinEmitted(win, s, <<q[Len(q)]>>)
                        /\ IF nxt = "" THEN NextLocation(s, idx[s])
                           ELSE /\ pc' = [pc EXCEPT ![s] = SendPc(nxt)]
                                /\ UNCHANGED <<idx, held>>
    /\ UNCHANGED <<rev, settings, now, cache, started, log, overlapped, sid, requests,
                   apiCallCounter, sentUnits, stored, faults, bad, ret, boot, non2xx>>

AllResponses == UNION {Responses(n) : n \in 1..(MaxScrapes * MaxNames)}
AllLibResults == UNION {LibResults(n) : n \in 1..(MaxScrapes * MaxNames)}

Next ==
    \/ Tick
    \/ \E s \in Scrapers : Start(s)
    \/ \E s \in Scrapers, src \in {"onecall", "pollution"} : GenLookup(s, src)
    \/ \E s \in Scrapers, src \in {"onecall", "pollution"} : GenRequest(s, src)
    \/ \E s \in Scrapers, src \in {"onecall", "pollution"}, h \in Heads :
          GenHeaders(s, src, h)
    \/ \E s \in Scrapers, src \in {"onecall", "pollution"}, resp \in AllResponses,
          setres \in SetResults : GenBody(s, src, resp, setres)
    \/ \E s \in Scrapers, src \in {"onecall", "pollution"} : GenSend(s, src)
    \/ \E s \in Scrapers : MonoLookup(s)
    \/ \E s \in Scrapers, src \in {"pollution", "uv"} : MonoGet(s, src)
    \/ \E s \in Scrapers, src \in Sources : MonoRequest(s, src)
    \/ \E s \in Scrapers, src \in Sources, res \in AllLibResults,
          setres \in SetResults : MonoAnswer(s, src, res, setres)
    \/ \E s \in Scrapers, src \in Sources : MonoSend(s, src)

Spec == Init /\ [][Next]_vars

(***************************************************************************)
(* The fetchers called directly, with any degrees unit and any upstream    *)
(* answer: CurrentByCoordinates and PollutionByCoordinates of part_007 and *)
(* owm.go.  started counts the calls.                                      *)
(***************************************************************************)
FetchSettings == [DegreesUnit : Units, EnablePol : {TRUE}, EnableUV : {FALSE}]

InitFetch ==
    /\ rev \in {"part_007", "owm.go"}
    /\ settings \in FetchSettings
    /\ now = 0
    /\ cache = [k \in Keys |-> NoItem]
    /\ proc = "serving"
    /\ started = 0
    /\ pc = [s \in Scrapers |-> "idle"]
    /\ idx = [s \in Scrapers |-> 1]
    /\ held = [s \in Scrapers |-> NoLocals]
    /\ out = [s \in Scrapers |-> <<>>]
    /\ log = [s \in Scrapers |-> NoLog]
    /\ overlapped = [s \in Scrapers |-> FALSE]
    /\ sid = [s \in Scrapers |-> 0]
    /\ requests = [k \in Keys |-> 0]
    /\ apiCallCounter = [k \in Keys |-> 0]
    /\ sentUnits = {}
    /\ stored = [k \in Keys |-> NoStore]
    /\ win = [k \in Keys |-> NoWin]
    /\ faults = 0
    /\ bad = [s \in Scrapers |-> {}]
    /\ ret = NoRet
    /\ boot = Booted
    /\ non2xx = [s \in Scrapers |-> {}]

\* a call of a fetcher for a location, up to client.Get: the request is on the
\* network, or an invalid unit has returned an error
FetchSend(s, i, src) ==
    /\ proc = "serving"
    /\ started < MaxCalls
    /\ pc[s] = "idle"
    /\ LET key == <<Locations[i], src>>
           f == Fetcher(src, NetErr)
       IN  /\ started' = started + 1
           /\ IF f.requested
              THEN /\ requests' = [requests EXCEPT ![key] = @ + 1]
                   /\ sentUnits' = IF src = "onecall" THEN sentUnits \cup {f.units}
                                   ELSE sentUnits
                   /\ idx' = [idx EXCEPT ![s] = i]
                   /\ held' = [held EXCEPT ![s].req = requests[key] + 1]
                   /\ pc' = [pc EXCEPT ![s] = WaitPc(src)]
                   /\ ret' = ret
              ELSE /\ ret' = [src |-> src, kind |-> f.kind, val |-> f.val]
                   /\ UNCHANGED <<requests, sentUnits, idx, held, pc>>
    /\ UNCHANGED <<rev, settings, now, cache, proc, out, log, overlapped, sid,
                   apiCallCounter, stored, win, faults, bad, boot, non2xx>>

\* client.Get returns: (nil, err) is returned to the caller (part_007's
\* weather fetcher panics on it, and ends the process on a non-2xx status);
\* otherwise the call is counted and the body is read from the network
FetchHeaders(s, src, h) ==
    /\ proc = "serving"
    /\ pc[s] = WaitPc(src)
    /\ h \in Heads
    /\ LET key == <<Loc(s), src>>
           f == Fetcher(src, AnyWithHead(held[s].req, h))
       IN  /\ apiCallCounter' = IF f.counted THEN [apiCallCounter EXCEPT ![key] = @ + 1]
                                ELSE apiCallCounter
           /\ IF f.counted
              THEN /\ held' = [held EXCEPT ![s].status = h.status]
                   /\ pc' = [pc EXCEPT ![s] = BodyPc(src)]
                   /\ UNCHANGED <<proc, ret>>
              ELSE /\ proc' = IF f.kind = "fatal" THEN "exited"
                              ELSE IF f.kind = "panic" THEN "panicked" ELSE proc
                   /\ ret' = [src |-> src, kind |-> f.kind, val |-> f.val]
                   /\ pc' = [pc EXCEPT ![s] = "idle"]
                   /\ held' = [held EXCEPT ![s] = NoLocals]
    /\ UNCHANGED <<rev, settings, now, cache, started, idx, out, log, overlapped, sid,
                   requests, sentUnits, stored, win, faults, bad, boot, non2xx>>

\* io.ReadAll returns with the body of resp: json.Unmarshal, and the return
FetchBody(s, src, resp) ==
    /\ proc = "serving"
    /\ pc[s] = BodyPc(src)
    /\ resp \in WithHead(held[s].req, [net |-> "ok", status |-> held[s].status])
    /\ LET f == Fetcher(src, resp)
       IN  /\ proc' = IF f.kind = "panic" THEN "panicked" ELSE proc
           /\ ret' = [src |-> src, kind |-> f.kind, val |-> f.val]
           /\ pc' = [pc EXCEPT ![s] = "idle"]
           /\ held' = [held EXCEPT ![s] = NoLocals]
    /\ UNCHANGED <<rev, settings, now, cache, started, idx, out, log, overlapped, sid,
                   requests, apiCallCounter, sentUnits, stored, win, faults, bad, boot,
                   non2xx>>

FetchResponses == UNION {Responses(n) : n \in 1..MaxCalls}

NextFetch ==
    \/ \E s \in Scrapers, i \in 1..Len(Locations), src \in {"onecall", "pollution"} :
          FetchSend(s, i, src)
    \/ \E s \in Scrapers, src \in {"onecall", "pollution"}, h \in Heads :
          FetchHeaders(s, src, h)
    \/ \E s \in Scrapers, src \in {"onecall", "pollution"}, resp \in FetchResponses :
          FetchBody(s, src, resp)

SpecFetch == InitFetch /\ [][NextFetch]_vars

(***************************************************************************)
(* Startup: main builds the collector; NewOpenweatherCollector calls       *)
(* resolveLocations, which geocodes the pipe-delimited names one by one.   *)
(* boot.geo names the GetCoords in use: src/geo/geo.go (over               *)
(* Nominatim.Search) or src/geo/nominatim.go lines 236-245 (over the       *)
(* geocoder library, whose Geocode returns an error, no location, or a     *)
(* location).                                                              *)
(***************************************************************************)
GeoNames == {"NYC", "SEA"}
Geos == {"geo.go", "nominatim.go"}

\* strings.Split(locations, "|"): the configured names, in order
NameLists == UNION {[1..n -> GeoNames] : n \in 1..MaxNames}

\* what the geocoder answers for one name: an error, no result, or a first
\* result with a latitude (0 when the latitude did not parse)
GeoAnswers == {[kind |-> "err", lat |-> 0], [kind |-> "empty", lat |-> 0]}
              \cup {[kind |-> "found", lat |-> l] : l \in 0..1}

\* geo.go GetCoords: results[0] is read without testing the length, and a
\* zero latitude is log.Fatalf
GetCoords_geo(g) ==
    IF g.kind = "err" THEN [kind |-> "err", lat |-> 0]
    ELSE IF g.kind = "empty" THEN [kind |-> "panic", lat |-> 0]
    ELSE IF g.lat # 0 THEN [kind |-> "ok", lat |-> g.lat]
    ELSE [kind |-> "fatal", lat |-> 0]

\* nominatim.go GetCoords: location.Lat of the location Geocode returned
GetCoords_nominatim(g) ==
    IF g.kind = "err" THEN [kind |-> "err", lat |-> 0]
    ELSE IF g.kind = "empty" THEN [kind |-> "panic", lat |-> 0]
    ELSE [kind |-> "ok", lat |-> g.lat]

GetCoords(geo, g) ==
    IF geo = "geo.go" THEN GetCoords_geo(g) ELSE GetCoords_nominatim(g)

\* resolveLocations, one iteration: an error of GetCoords is log.Fatal,
\* otherwise the Location is appended
resolveLocations_skip(res, name, c) ==
    IF c.kind = "ok"
    THEN [res |-> Append(res, [Location |-> name, Latitude |-> c.lat]),
          proc |-> "starting"]
    ELSE IF c.kind = "err" THEN [res |-> res, proc |-> "starting"]
    ELSE [res |-> res, proc |-> IF c.kind = "panic" THEN "panicked" ELSE "exited"]
resolveLocations(res, name, c) ==
    IF c.kind = "ok"
    THEN [res |-> Append(res, [Location |-> name, Latitude |-> c.lat]),
          proc |-> "starting"]
    ELSE IF c.kind = "err" THEN [res |-> res, proc |-> "exited"]
    ELSE [res |-> res, proc |-> IF c.kind = "panic" THEN "panicked" ELSE "exited"]

InitStart ==
    /\ rev \in Revs
    /\ settings \in SettingsOf(rev)
    /\ now = 0
    /\ cache = [k \in Keys |-> NoItem]
    /\ proc = "starting"
    /\ started = 0
    /\ pc = [s \in Scrapers |-> "idle"]
    /\ idx = [s \in Scrapers |-> 1]
    /\ held = [s \in Scrapers |-> NoLocals]
    /\ out = [s \in Scrapers |-> <<>>]
    /\ log = [s \in Scrapers |-> NoLog]
    /\ overlapped = [s \in Scrapers |-> FALSE]
    /\ sid = [s \in Scrapers |-> 0]
    /\ requests = [k \in Keys |-> 0]
    /\ apiCallCounter = [k \in Keys |-> 0]
    /\ sentUnits = {}
    /\ stored = [k \in Keys |-> NoStore]
    /\ win = [k \in Keys |-> NoWin]
    /\ faults = 0
    /\ bad = [s \in Scrapers |-> {}]
    /\ ret = NoRet
    /\ boot \in [names : NameLists, geo : Geos, idx : {1}, res : {<<>>}]
    /\ non2xx = [s \in Scrapers |-> {}]

\* resolveLocations: the next name is geocoded
Resolve(g) ==
    /\ proc = "starting"
    /\ boot.idx <= Len(boot.names)
    /\ LET r == resolveLocations(boot.res, boot.names[boot.idx],
                                 GetCoords(boot.geo, g))
       IN  /\ boot' = [boot EXCEPT !.res = r.res, !.idx = @ + 1]
           /\ proc' = r.proc
    /\ UNCHANGED <<rev, settings, now, cache, started, pc, idx, held, out, log,
                   overlapped, sid, requests, apiCallCounter, sentUnits, stored,
                   win, faults, bad, ret, non2xx>>

\* main: the collector is built and registered, http.ListenAndServe serves
Serve ==
    /\ proc = "starting"
    /\ boot.idx > Len(boot.names)
    /\ proc' = "serving"
    /\ UNCHANGED <<rev, settings, now, cache, started, pc, idx, held, out, log,
                   overlapped, sid, requests, apiCallCounter, sentUnits, stored,
                   win, faults, bad, ret, boot, non2xx>>

NextStart ==
    \/ \E g \in GeoAnswers : Resolve(g)
    \/ Serve

SpecStart == InitStart /\ [][NextStart]_vars

(***************************************************************************)
(* Cache keys.  A location name is a string, here a sequence of characters;*)
(* collector.go formats the keys in resolveLocations ("OWM %s", "POWM %s", *)
(* "UVOWM %s"), part_007 appends ":onecall" or ":pollution" to the name.   *)
(* The key-level machine stores snapshots for two (location, source) pairs *)
(* under their keys, in any order; ret holds the pairs, the store and the  *)
(* snapshot last stored for each pair.                                     *)
(***************************************************************************)
Alphabet == {"P", "O", ":", "x"}
NameStrings == UNION {[1..n -> Alphabet] : n \in 0..MaxNameLen}

SourcesOf(r) == IF r = "collector.go" THEN Sources ELSE {"onecall", "pollution"}

\* the key of (location, source) in a revision
CacheKey_shared(r, loc, src) ==
    IF r = "collector.go" THEN <<"O", "W", "M", " ">> \o loc
    ELSE loc \o <<":", "o", "n", "e", "c", "a", "l", "l">>
CacheKey(r, loc, src) ==
    IF r = "collector.go"
    THEN (IF src = "onecall" THEN <<"O", "W", "M", " ">>
          ELSE IF src = "pollution" THEN <<"P", "O", "W", "M", " ">>
          ELSE <<"U", "V", "O", "W", "M", " ">>) \o loc
    ELSE loc \o (IF src = "onecall" THEN <<":", "o", "n", "e", "c", "a", "l", "l">>
                 ELSE <<":", "p", "o", "l", "l", "u", "t", "i", "o", "n">>)

\* Cache.Set on a store of [key, val] entries: the entry of the key is replaced
KeyStoreSet(store, key, v) ==
    {e \in store : e.key # key} \cup {[key |-> key, val |-> v]}

\* Cache.Get on that store: the values found under the key
KeyStoreGet(store, key) == {e.val : e \in {x \in store : x.key = key}}

\* the settings under which Collect calls every source of the revision: the
\* key and the hit branch of each source are exercised whatever main sets
SourcesOn(r) ==
    IF r = "collector.go"
    THEN [DegreesUnit : {"F"}, EnablePol : {TRUE}, EnableUV : {TRUE}]
    ELSE [DegreesUnit : {"F"}, EnablePol : {TRUE}, EnableUV : {FALSE}]

InitKey ==
    /\ rev \in Revs
    /\ settings \in SourcesOn(rev)
    /\ now = 0
    /\ cache = [k \in Keys |-> NoItem]
    /\ proc = "serving"
    /\ started = 0
    /\ pc = [s \in Scrapers |-> "idle"]
    /\ idx = [s \in Scrapers |-> 1]
    /\ held = [s \in Scrapers |-> NoLocals]
    /\ out = [s \in Scrapers |-> <<>>]
    /\ log = [s \in Scrapers |-> NoLog]
    /\ overlapped = [s \in Scrapers |-> FALSE]
    /\ sid = [s \in Scrapers |-> 0]
    /\ requests = [k \in Keys |-> 0]
    /\ apiCallCounter = [k \in Keys |-> 0]
    /\ sentUnits = {}
    /\ stored = [k \in Keys |-> NoStore]
    /\ win = [k \in Keys |-> NoWin]
    /\ faults = 0
    /\ bad = [s \in Scrapers |-> {}]
    /\ boot = Booted
    /\ non2xx = [s \in Scrapers |-> {}]
    /\ \E a, b \in NameStrings \X SourcesOf(rev) :
           ret = [a |-> a, b |-> b, store |-> {}, last |-> {}, n |-> 0]

\* a snapshot is stored under the key of one of the two pairs
KeySet(p) ==
    /\ proc = "serving"
    /\ ret.n < MaxSets
    /\ p \in {ret.a, ret.b}
    /\ ret' = [ret EXCEPT
                 !.n = @ + 1,
                 !.store = KeyStoreSet(@, CacheKey(rev, p[1], p[2]), ret.n + 1),
                 !.last = {x \in @ : x[1] # p} \cup {<<p, ret.n + 1>>}]
    /\ UNCHANGED <<rev, settings, now, cache, proc, started, pc, idx, held, out, log,
                   overlapped, sid, requests, apiCallCounter, sentUnits, stored,
                   win, faults, bad, boot, non2xx>>

NextKey == \E p \in NameStrings \X Sources : KeySet(p)

SpecKey == InitKey /\ [][NextKey]_vars

(***************************************************************************)
(* Extraction, metric by metric: collectOneCall of part_007 for one        *)
(* location.  The snapshot is obtained once from cachedHttpRequest into    *)
(* the local w; the loop over the location's metric table then sends one   *)
(* sample per step, while the other scrape may store a newer snapshot.     *)
(* Here out[s] is the sequence of samples sent.                            *)
(***************************************************************************)
EmitKey == <<"NYC", "onecall">>

\* metric.FromResponse(w): the snapshot a sample is computed from is the local
FromResponse_reread(s) ==
    LET r == CacheGet(cache, EmitKey, now) IN IF IsHit(r) THEN r.val ELSE Nil
FromResponse(s) == held[s].w

InitEmit ==
    /\ rev \in {"part_007", "owm.go"}
    /\ settings \in {x \in SettingsOf(rev) : x.DegreesUnit = "F" /\ ~x.EnablePol}
    /\ now = 0
    /\ cache = [k \in Keys |-> NoItem]
    /\ proc = "serving"
    /\ started = 0
    /\ pc = [s \in Scrapers |-> "idle"]
    /\ idx = [s \in Scrapers |-> 1]
    /\ held = [s \in Scrapers |-> NoLocals]
    /\ out = [s \in Scrapers |-> <<>>]
    /\ log = [s \in Scrapers |-> NoLog]
    /\ overlapped = [s \in Scrapers |-> FALSE]
    /\ sid = [s \in Scrapers |-> 0]
    /\ requests = [k \in Keys |-> 0]
    /\ apiCallCounter = [k \in Keys |-> 0]
    /\ sentUnits = {}
    /\ stored = [k \in Keys |-> NoStore]
    /\ win = [k \in Keys |-> NoWin]
    /\ faults = 0
    /\ bad = [s \in Scrapers |-> {}]
    /\ ret = NoRet
    /\ boot = BootedWith(<<EmitKey[1]>>)
    /\ non2xx = [s \in Scrapers |-> {}]

\* collectOneCall: one turn of `for _, metric := range ...oneCallMetrics[...]`
EmitSample(s) ==
    /\ proc = "serving"
    /\ IsGen
    /\ pc[s] = "sendW"
    /\ LET names == oneCallMetrics(settings)
           i == Len(out[s]) + 1
       IN  /\ out' = [out EXCEPT ![s] =
                        Append(@, [name |-> names[i], location |-> Loc(s),
                                   val |-> FromResponse(s)])]
           /\ IF i = Len(names) THEN GenAdvance(s, "onecall")
              ELSE UNCHANGED <<pc, idx, held>>
    /\ UNCHANGED <<rev, settings, now, cache, proc, started, log, overlapped, sid,
                   requests, apiCallCounter, sentUnits, stored, win, faults, bad, ret,
                   boot, non2xx>>

\* the Collects of part_007 over the one location, their sends taken one by one
NextEmit ==
    \/ Tick
    \/ \E s \in Scrapers : Start(s)
    \/ \E s \in Scrapers : GenLookup(s, "onecall")
    \/ \E s \in Scrapers : GenRequest(s, "onecall")
    \/ \E s \in Scrapers, h \in Heads : GenHeaders(s, "onecall", h)
    \/ \E s \in Scrapers, resp \in AllResponses, setres \in SetResults :
          GenBody(s, "onecall", resp, setres)
    \/ \E s \in Scrapers : EmitSample(s)

SpecEmit == InitEmit /\ [][NextEmit]_vars

(***************************************************************************)
(* Extraction of the weather metrics from one snapshot, field by field.    *)
(* A snapshot is [num, Weather]: num gives the numeric fields of           *)
(* OneCallCurrentData (types.go 48-66; the fields of owm.CurrentWeatherData *)
(* that collector.go reads are named alike here), Weather the descriptions *)
(* of its weather list.  held[1].w points to the snapshot, idx[1] is the   *)
(* location, out[1] the samples sent: [name, value, labels].               *)
(***************************************************************************)
MaxSetFields == 2
MaxWeather == 2

Fields == {"Temp", "Humidity", "FeelsLike", "Pressure", "WindSpeed", "Rain", "Snow",
           "WindDeg", "Clouds", "Sunrise", "Sunset", "UVI"}
Descriptions == {"clear sky", "rain"}

\* the snapshots: at most MaxSetFields numeric fields read 1, the others 0
Snapshots ==
    {[num |-> [f \in Fields |-> IF f \in S THEN 1 ELSE 0], Weather |-> ws] :
        S \in {T \in SUBSET Fields : Cardinality(T) <= MaxSetFields},
        ws \in UNION {[1..n -> Descriptions] : n \in 0..MaxWeather}}

\* `for _, n := range d.Weather { weatherDescription = n.Description }`
RECURSIVE WeatherLoop(_, _, _)
WeatherLoop(ws, i, acc) ==
    IF i > Len(ws) THEN acc ELSE WeatherLoop(ws, i + 1, ws[i])

weatherDescription_first(ws) == IF ws = <<>> THEN "" ELSE ws[1]
weatherDescription(ws) == WeatherLoop(ws, 1, "")

\* metrics.go OneCallGauges: the extractValue of each entry of the table
extractValue(name, d) ==
    CASE name = "openweather_temperature" -> d.num["Temp"]
      [] name = "openweather_humidity" -> d.num["Humidity"]
      [] name = "openweather_feelslike" -> d.num["FeelsLike"]
      [] name = "openweather_pressure" -> d.num["Pressure"]
      [] name = "openweather_windspeed" -> d.num["WindSpeed"]
      [] name = "openweather_rain1h" -> d.num["Rain"]
      [] name = "openweather_snow1h" -> d.num["Snow"]
      [] name = "openweather_winddegree" -> d.num["WindDeg"]
      [] name = "openweather_cloudiness" -> d.num["Clouds"]
      [] name = "openweather_sunrise" -> d.num["Sunrise"]
      [] name = "openweather_sunset" -> d.num["Sunset"]
      [] name = "openweather_ultraviolet_index" -> d.num["UVI"]
      [] name = "openweather_currentconditions" -> 0

\* metrics.go OneCallGauges: the extractLabelValues of each entry
extractLabelValues(name, d, location) ==
    IF name = "openweather_currentconditions"
    THEN <<location, weatherDescription(d.Weather)>>
    ELSE <<location>>

\* collector.go Collect: the value of each MustNewConstMetric line of the
\* weather block (w.Main.Temp, float64(w.Main.Humidity), ...)
CollectValue_collector(name, w) ==
    CASE name = "openweather_temperature" -> w.num["Temp"]
      [] name = "openweather_humidity" -> w.num["Humidity"]
      [] name = "openweather_feelslike" -> w.num["FeelsLike"]
      [] name = "openweather_pressure" -> w.num["Pressure"]
      [] name = "openweather_windspeed" -> w.num["WindSpeed"]
      [] name = "openweather_rain1h" -> w.num["Rain"]
      [] name = "openweather_winddegree" -> w.num["WindDeg"]
      [] name = "openweather_cloudiness" -> w.num["Clouds"]
      [] name = "openweather_sunrise" -> w.num["Sunrise"]
      [] name = "openweather_sunset" -> w.num["Sunset"]
      [] name = "openweather_snow1h" -> w.num["Snow"]
      [] name = "openweather_currentconditions" -> 0

\* the sample a revision sends for one metric of the weather block
Sample(r, name, d, location) ==
    [name |-> name,
     value |-> IF r = "collector.go" THEN CollectValue_collector(name, d)
               ELSE extractValue(name, d),
     labels |-> extractLabelValues(name, d, location)]

\* the collector at rest: nothing cached, nothing requested, no scrape yet
AtRest ==
    /\ now = 0
    /\ cache = [k \in Keys |-> NoItem]
    /\ log = [s \in Scrapers |-> NoLog]
    /\ overlapped = [s \in Scrapers |-> FALSE]
    /\ sid = [s \in Scrapers |-> 0]
    /\ requests = [k \in Keys |-> 0]
    /\ apiCallCounter = [k \in Keys |-> 0]
    /\ sentUnits = {}
    /\ stored = [k \in Keys |-> NoStore]
    /\ win = [k \in Keys |-> NoWin]
    /\ faults = 0
    /\ bad = [s \in Scrapers |-> {}]
    /\ boot = Booted
    /\ non2xx = [s \in Scrapers |-> {}]

RestFrame == <<now, cache, log, overlapped, sid, requests, apiCallCounter,
               sentUnits, stored, win, faults, bad, boot, non2xx>>

\* Collect holds the weather snapshot of a location and is about to send
InitExtract ==
    /\ rev \in Revs
    /\ settings \in {x \in SettingsOf(rev) :
                        x.DegreesUnit = "F" /\ ~x.EnablePol /\ ~x.EnableUV}
    /\ proc = "serving"
    /\ started = 1
    /\ pc = [s \in Scrapers |-> IF s = 1 THEN "emit" ELSE "idle"]
    /\ \E i \in 1..Len(Locations) : idx = [s \in Scrapers |-> IF s = 1 THEN i ELSE 1]
    /\ \E d \in Snapshots :
           held = [s \in Scrapers |-> IF s = 1 THEN [NoLocals EXCEPT !.w = Ptr(d)]
                                      ELSE NoLocals]
    /\ out = [s \in Scrapers |-> <<>>]
    /\ ret = NoRet
    /\ AtRest

\* the next `ch <-` of the weather block: one sample from the snapshot held
ExtractSample(s) ==
    /\ pc[s] = "emit"
    /\ LET names == GroupNames(rev, settings, "onecall")
           i == Len(out[s]) + 1
       IN  /\ out' = [out EXCEPT ![s] =
                        Append(@, Sample(rev, names[i], Deref(held[s].w), Loc(s)))]
           /\ pc' = [pc EXCEPT ![s] = IF i = Len(names) THEN "done" ELSE "emit"]
    /\ UNCHANGED <<rev, settings, proc, started, idx, held, ret>>
    /\ UNCHANGED RestFrame

NextExtract == \E s \in Scrapers : ExtractSample(s)

SpecExtract == InitExtract /\ [][NextExtract]_vars

(***************************************************************************)
(* The cache-hit branch, with typed values.  The store of the key-level    *)
(* machine holds what the miss branch gave Cache.Set: a value of the type  *)
(* the source's fetch returns.  A Cache.Get answers with the value found   *)
(* and no error, or with ErrNotFound and no value.  ret holds two pairs,   *)
(* the store, the number of sets and what the last Cache.Get came to.      *)
(***************************************************************************)
ShortNames == {n \in NameStrings : Len(n) <= 1}

\* the type of the snapshot a source's fetch returns
FetchedType_list(r, src) ==
    IF r = "collector.go"
    THEN (IF src = "onecall" THEN "*owm.CurrentWeatherData"
          ELSE IF src = "pollution" THEN "*owm.Pollution" ELSE "*owm.Pollution")
    ELSE (IF src = "onecall" THEN "*OneCallCurrentData" ELSE "*Pollution")
FetchedType(r, src) ==
    IF r = "collector.go"
    THEN (IF src = "onecall" THEN "*owm.CurrentWeatherData"
          ELSE IF src = "pollution" THEN "*owm.Pollution" ELSE "*owm.UV")
    ELSE (IF src = "onecall" THEN "*OneCallCurrentData" ELSE "*PollutionData")

\* the type asserted on a hit: val.(*owm.CurrentWeatherData), pval.(*owm.Pollution),
\* uvval.(*owm.UV) in collector.go; val.(T) in cachedHttpRequest, T being the
\* result type of the closure collectOneCall or collectPollution passes
AssertedType(r, src) ==
    IF r = "collector.go"
    THEN (IF src = "onecall" THEN "*owm.CurrentWeatherData"
          ELSE IF src = "pollution" THEN "*owm.Pollution" ELSE "*owm.UV")
    ELSE (IF src = "onecall" THEN "*OneCallCurrentData" ELSE "*PollutionData")

\* Gauge[T].FromResponse: d := data.(T), T being the type of the source's table
GaugeType(src) == IF src = "onecall" THEN "*OneCallCurrentData" ELSE "*PollutionData"

\* the answers Cache.Get can give for a key of the store
GetOutcomes(store, key) ==
    IF KeyStoreGet(store, key) = {}
    THEN {[val |-> Nil, err |-> "notFound"]}
    ELSE {[val |-> Ptr(v), err |-> "nil"] : v \in KeyStoreGet(store, key)}

\* what the branch on `err != notFound || val != nil` comes to: a miss, a hit,
\* or a panic of the type assertion, on a nil interface or on another type
HitBranch(r, src, o) ==
    IF ~IsHit(o) THEN "miss"
    ELSE IF o.val = Nil THEN "nilAssert"
    ELSE IF Deref(o.val).type # AssertedType(r, src) THEN "typeAssert"
    ELSE IF r # "collector.go" /\ Deref(o.val).type # GaugeType(src) THEN "typeAssert"
    ELSE "hit"

NoGot == [pair |-> <<>>, val |-> Nil, err |-> "", kind |-> "none"]

InitHit ==
    /\ rev \in Revs
    /\ settings \in SourcesOn(rev)
    /\ proc = "serving"
    /\ started = 0
    /\ pc = [s \in Scrapers |-> "idle"]
    /\ idx = [s \in Scrapers |-> 1]
    /\ held = [s \in Scrapers |-> NoLocals]
    /\ out = [s \in Scrapers |-> <<>>]
    /\ AtRest
    /\ \E a, b \in ShortNames \X SourcesOf(rev) :
           ret = [a |-> a, b |-> b, store |-> {}, n |-> 0, got |-> NoGot]

\* the miss branch stores the snapshot its fetch returned
HitSet(p) ==
    /\ proc = "serving"
    /\ ret.n < MaxSets
    /\ p \in {ret.a, ret.b}
    /\ ret' = [ret EXCEPT
                 !.n = @ + 1,
                 !.store = KeyStoreSet(@, CacheKey(rev, p[1], p[2]),
                                       [type |-> FetchedType(rev, p[2]), n |-> ret.n + 1])]
    /\ UNCHANGED <<rev, settings, proc, started, pc, idx, held, out>>
    /\ UNCHANGED RestFrame

\* Cache.Get for the key of a pair, and the branch taken on its answer
HitGet(p, o) ==
    /\ proc = "serving"
    /\ started < MaxCalls
    /\ p \in {ret.a, ret.b}
    /\ o \in GetOutcomes(ret.store, CacheKey(rev, p[1], p[2]))
    /\ LET kind == HitBranch(rev, p[2], o)
       IN  /\ ret' = [ret EXCEPT !.got = [pair |-> p, val |-> o.val, err |-> o.err,
                                         kind |-> kind]]
           /\ proc' = IF kind \in {"nilAssert", "typeAssert"} THEN "panicked" ELSE proc
    /\ started' = started + 1
    /\ UNCHANGED <<rev, settings, pc, idx, held, out>>
    /\ UNCHANGED RestFrame

HitValues == {Nil} \cup {Ptr([type |-> FetchedType(r, src), n |-> n]) :
                            r \in Revs, src \in Sources, n \in 1..MaxSets}

NextHit ==
    \/ \E p \in ShortNames \X Sources : HitSet(p)
    \/ \E p \in ShortNames \X Sources, v \in HitValues,
          e \in {"nil", "notFound"} : HitGet(p, [val |-> v, err |-> e])

SpecHit == InitHit /\ [][NextHit]_vars

(***************************************************************************)
(* The snapshots as objects.  A pointer is here the address of a struct of *)
(* the heap.  A fetch declares a struct, json.Unmarshal fills it field by  *)
(* field while the other goroutines run, the miss branch gives Cache.Set   *)
(* the pointer, and the metric loop reads the fields through the pointer   *)
(* it holds, its own or the one Cache.Get returned.  The cache replaces    *)
(* and returns the pointer of a key in one operation (spec section 4.1);   *)
(* what the pointer leads to is the collector's doing.  The Collects, two  *)
(* of them at a time, work on the weather key of one location.  ret holds  *)
(* the heap, the number of structs declared so far, the structs given to   *)
(* Cache.Set, as they were at that moment, and per Collect the reading     *)
(* carried by the bytes being decoded.                                     *)
(***************************************************************************)
HeapKey == <<Locations[1], "onecall">>
HeapFields == <<"Temp", "Humidity">>
Addrs == 1..MaxCalls
ZeroStruct == [f \in Range(HeapFields) |-> 0]

\* `var onecall OneCallData` in CurrentByCoordinates, owm.NewCurrent in the miss
\* branch of collector.go: the n structs declared before are left alone, the
\* fetch fills a struct of its own
NewSnapshot_shared(n) == 1
NewSnapshot(n) == n + 1

FillPc(i) == IF i = 1 THEN "fill1" ELSE "fill2"

InitHeap ==
    /\ rev \in Revs
    /\ settings \in {x \in SettingsOf(rev) : ~x.EnablePol /\ ~x.EnableUV}
    /\ now = 0
    /\ cache = [k \in Keys |-> NoItem]
    /\ proc = "serving"
    /\ started = 0
    /\ pc = [s \in Scrapers |-> "idle"]
    /\ idx = [s \in Scrapers |-> 1]
    /\ held = [s \in Scrapers |-> NoLocals]
    /\ out = [s \in Scrapers |-> <<>>]
    /\ log = [s \in Scrapers |-> NoLog]
    /\ overlapped = [s \in Scrapers |-> FALSE]
    /\ sid = [s \in Scrapers |-> 0]
    /\ requests = [k \in Keys |-> 0]
    /\ apiCallCounter = [k \in Keys |-> 0]
    /\ sentUnits = {}
    /\ stored = [k \in Keys |-> NoStore]
    /\ win = [k \in Keys |-> NoWin]
    /\ faults = 0
    /\ bad = [s \in Scrapers |-> {}]
    /\ ret = [heap |-> [a \in Addrs |-> ZeroStruct], declared |-> 0, passed |-> {},
              bytes |-> [s \in Scrapers |-> 0]]
    /\ boot = BootedWith(<<Locations[1]>>)
    /\ non2xx = [s \in Scrapers |-> {}]

HeapFrame == <<rev, settings, now, started, overlapped, sid, boot>>

\* a scrape request arrives: the registry calls Collect, in the lowest free slot
HeapStart(s) ==
    /\ proc = "serving"
    /\ ~Active(s)
    /\ \A t \in Scrapers : t < s => Active(t)
    /\ started < MaxCalls
    /\ started' = started + 1
    /\ sid' = [sid EXCEPT ![s] = started + 1]
    /\ pc' = [pc EXCEPT ![s] = "lookup"]
    /\ idx' = [idx EXCEPT ![s] = 1]
    /\ held' = [held EXCEPT ![s] = NoLocals]
    /\ out' = [out EXCEPT ![s] = <<>>]
    /\ log' = [log EXCEPT ![s] = NoLog]
    /\ bad' = [bad EXCEPT ![s] = {}]
    /\ non2xx' = [non2xx EXCEPT ![s] = {}]
    /\ overlapped' = [t \in Scrapers |->
                        IF t = s THEN \E u \in Scrapers \ {s} : Active(u)
                        ELSE Active(t) \/ overlapped[t]]
    /\ UNCHANGED <<rev, settings, now, cache, proc, requests, apiCallCounter,
                   sentUnits, stored, win, faults, ret, boot>>

\* Cache.Get of the weather key: a hit hands the cached pointer to the metric
\* loop, a miss goes on to the fetch
HeapLookup(s) ==
    /\ proc = "serving"
    /\ pc[s] = "lookup"
    /\ LET r == CacheGet(cache, HeapKey, now)
       IN  /\ cache' = CacheAfterGet(cache, HeapKey, now)
           /\ IF IsHit(r)
              THEN IF r.val = Nil
                   THEN /\ proc' = "panicked"
                        /\ UNCHANGED <<pc, held, log, stored>>
                   ELSE /\ held' = [held EXCEPT ![s].w = r.val]
                        /\ log' = [log EXCEPT ![s][HeapKey] = "hit"]
                        /\ stored' = ReadAt(stored, {HeapKey}, now)
                        /\ pc' = [pc EXCEPT ![s] = "sendW"]
                        /\ proc' = proc
              ELSE /\ log' = [log EXCEPT ![s][HeapKey] = "miss"]
                   /\ pc' = [pc EXCEPT ![s] = "reqW"]
                   /\ UNCHANGED <<proc, held, stored>>
    /\ UNCHANGED <<idx, out, requests, apiCallCounter, sentUnits, win, faults, bad,
                   non2xx, ret>>
    /\ UNCHANGED HeapFrame

\* the fetch begins: its struct is declared, the unit is looked up and the
\* request is sent with it; the n-th request is answered with the reading n.
\* An unknown unit is an error of the fetcher, and log.Fatal in collector.go
HeapRequest(s) ==
    /\ proc = "serving"
    /\ pc[s] = "reqW"
    /\ NewSnapshot(ret.declared) \in Addrs
    /\ IF settings.DegreesUnit \in DOMAIN DataUnits
       THEN /\ requests' = [requests EXCEPT ![HeapKey] = @ + 1]
            /\ sentUnits' = sentUnits \cup {DataUnits[settings.DegreesUnit]}
            /\ held' = [held EXCEPT ![s].w = Ptr(NewSnapshot(ret.declared)),
                                    ![s].req = requests[HeapKey] + 1]
            /\ ret' = [ret EXCEPT !.declared = @ + 1]
            /\ pc' = [pc EXCEPT ![s] = "waitW"]
            /\ UNCHANGED <<proc, idx, log>>
       ELSE IF IsMono
       THEN /\ proc' = "exited"
            /\ UNCHANGED <<pc, idx, held, log, requests, sentUnits, ret>>
       ELSE /\ log' = [log EXCEPT ![s][HeapKey] = "fetchErr"]
            /\ NextLocation(s, idx[s])
            /\ UNCHANGED <<proc, requests, sentUnits, ret>>
    /\ UNCHANGED <<cache, out, apiCallCounter, stored, win, faults, bad, non2xx>>
    /\ UNCHANGED HeapFrame

\* client.Get returns in the fetcher: part_007 tests the status, the call is
\* counted, and the body is read from the network; a transport error is
\* returned (part_007 panics on it)
HeapHeaders(s, h) ==
    /\ proc = "serving"
    /\ IsGen
    /\ pc[s] = "waitW"
    /\ h \in Heads
    /\ HeadFault(h) \in 0..(MaxFaults - faults)
    /\ faults' = faults + HeadFault(h)
    /\ LET f == Fetcher("onecall", AnyWithHead(held[s].req, h))
       IN  /\ apiCallCounter' = IF f.counted
                                THEN [apiCallCounter EXCEPT ![HeapKey] = @ + 1]
                                ELSE apiCallCounter
           /\ bad' = IF FailedHead(h) THEN [bad EXCEPT ![s] = @ \cup {HeapKey}] ELSE bad
           /\ non2xx' = IF Non2xx(h) THEN [non2xx EXCEPT ![s] = @ \cup {HeapKey}]
                        ELSE non2xx
           /\ IF f.counted
              THEN /\ held' = [held EXCEPT ![s].status = h.status]
                   /\ pc' = [pc EXCEPT ![s] = "bodyW"]
                   /\ UNCHANGED <<proc, idx, log>>
              ELSE IF f.kind = "fatal"
              THEN /\ proc' = "exited"
                   /\ UNCHANGED <<pc, idx, held, log>>
              ELSE IF f.kind = "panic"
              THEN /\ proc' = "panicked"
                   /\ UNCHANGED <<pc, idx, held, log>>
              ELSE /\ log' = [log EXCEPT ![s][HeapKey] = "fetchErr"]
                   /\ NextLocation(s, idx[s])
                   /\ proc' = proc
    /\ UNCHANGED <<cache, out, requests, sentUnits, stored, win, ret>>
    /\ UNCHANGED HeapFrame

\* io.ReadAll returns the bytes of the body and json.Unmarshal begins; bytes
\* that are not JSON are an error of the fetcher
HeapBody(s, resp) ==
    /\ proc = "serving"
    /\ IsGen
    /\ pc[s] = "bodyW"
    /\ resp \in WithHead(held[s].req, [net |-> "ok", status |-> held[s].status])
    /\ BodyFault(held[s].status, resp, "nil") \in 0..(MaxFaults - faults)
    /\ faults' = faults + BodyFault(held[s].status, resp, "nil")
    /\ LET f == Fetcher("onecall", resp)
       IN  /\ bad' = IF Failed(resp) THEN [bad EXCEPT ![s] = @ \cup {HeapKey}] ELSE bad
           /\ IF f.kind = "ok"
              THEN /\ ret' = [ret EXCEPT !.bytes[s] = Deref(f.val)]
                   /\ pc' = [pc EXCEPT ![s] = FillPc(1)]
                   /\ UNCHANGED <<idx, held, log>>
              ELSE /\ log' = [log EXCEPT ![s][HeapKey] = "fetchErr"]
                   /\ NextLocation(s, idx[s])
                   /\ ret' = ret
    /\ UNCHANGED <<cache, proc, out, requests, apiCallCounter, sentUnits, stored, win,
                   non2xx>>
    /\ UNCHANGED HeapFrame

\* collector.go: the library call has its answer and decodes it into w, or
\* returns an error, which Collect answers with `continue`
HeapLibrary(s, res) ==
    /\ proc = "serving"
    /\ IsMono
    /\ pc[s] = "waitW"
    /\ res \in LibResults(held[s].req)
    /\ InjectedLib(res, "nil") \in 0..(MaxFaults - faults)
    /\ faults' = faults + InjectedLib(res, "nil")
    /\ bad' = IF res.kind = "err" THEN [bad EXCEPT ![s] = @ \cup {HeapKey}] ELSE bad
    /\ IF res.kind = "ok"
       THEN /\ ret' = [ret EXCEPT !.bytes[s] = Deref(res.val)]
            /\ pc' = [pc EXCEPT ![s] = FillPc(1)]
            /\ UNCHANGED <<idx, held, log>>
       ELSE /\ log' = [log EXCEPT ![s][HeapKey] = "fetchErr"]
            /\ NextLocation(s, idx[s])
            /\ ret' = ret
    /\ UNCHANGED <<cache, proc, out, requests, apiCallCounter, sentUnits, stored, win,
                   non2xx>>
    /\ UNCHANGED HeapFrame

\* json.Unmarshal writes the next field of the fetch's struct
HeapUnmarshal(s, i) ==
    /\ proc = "serving"
    /\ i \in 1..Len(HeapFields)
    /\ pc[s] = FillPc(i)
    /\ ret' = [ret EXCEPT !.heap[Deref(held[s].w)][HeapFields[i]] = ret.bytes[s]]
    /\ pc' = [pc EXCEPT ![s] = IF i < Len(HeapFields) THEN FillPc(i + 1) ELSE "setW"]
    /\ UNCHANGED <<cache, proc, idx, held, out, log, requests, apiCallCounter,
                   sentUnits, stored, win, faults, bad, non2xx>>
    /\ UNCHANGED HeapFrame

\* the fetch has returned the pointer: Cache.Set, then the metric loop; after
\* an error of Cache.Set the iteration sends nothing
HeapSet(s, setres) ==
    /\ proc = "serving"
    /\ pc[s] = "setW"
    /\ setres \in SetResults
    /\ InjectedLib([kind |-> "ok"], setres) \in 0..(MaxFaults - faults)
    /\ faults' = faults + InjectedLib([kind |-> "ok"], setres)
    /\ cache' = CacheAfterFetch(cache, HeapKey, "ok", held[s].w, setres, now)
    /\ IF SetErrorAborts(setres)
       THEN /\ log' = [log EXCEPT ![s][HeapKey] = "setErr"]
            /\ NextLocation(s, idx[s])
            /\ UNCHANGED <<stored, win, ret>>
       ELSE /\ stored' = [stored EXCEPT ![HeapKey] = Stored(held[s].w, now, sid[s])]
            /\ win' = [win EXCEPT ![HeapKey] = [opener |-> sid[s], emitted |-> Nil]]
            /\ ret' = [ret EXCEPT !.passed = @ \cup {[addr |-> Deref(held[s].w),
                                                     val |-> ret.heap[Deref(held[s].w)]]}]
            /\ log' = [log EXCEPT ![s][HeapKey] = "fetched"]
            /\ held' = [held EXCEPT ![s].req = 0, ![s].status = 0]
            /\ pc' = [pc EXCEPT ![s] = "sendW"]
            /\ idx' = idx
    /\ UNCHANGED <<proc, out, requests, apiCallCounter, sentUnits, bad, non2xx>>
    /\ UNCHANGED HeapFrame

\* one turn of the metric loop: the next field is read through the pointer
\* and sent; after the last one the iteration ends
HeapSend(s) ==
    /\ proc = "serving"
    /\ pc[s] = "sendW"
    /\ LET i == Len(out[s]) + 1
       IN  /\ out' = [out EXCEPT ![s] = Append(@, ret.heap[Deref(held[s].w)][HeapFields[i]])]
           /\ IF i < Len(HeapFields)
              THEN UNCHANGED <<win, pc, idx, held>>
              ELSE /\ win' = WinEmitted(win, s, <<Group(Loc(s), "onecall", held[s].w, i)>>)
                   /\ NextLocation(s, idx[s])
    /\ UNCHANGED <<cache, proc, log, requests, apiCallCounter, sentUnits, stored,
                   faults, bad, non2xx, ret>>
    /\ UNCHANGED HeapFrame

NextHeap ==
    \/ Tick
    \/ \E s \in Scrapers : HeapStart(s)
    \/ \E s \in Scrapers : HeapLookup(s)
    \/ \E s \in Scrapers : HeapRequest(s)
    \/ \E s \in Scrapers, h \in Heads : HeapHeaders(s, h)
    \/ \E s \in Scrapers, resp \in AllResponses : HeapBody(s, resp)
    \/ \E s \in Scrapers, res \in AllLibResults : HeapLibrary(s, res)
    \/ \E s \in Scrapers, i \in 1..Len(HeapFields) : HeapUnmarshal(s, i)
    \/ \E s \in Scrapers, setres \in SetResults : HeapSet(s, setres)
    \/ \E s \in Scrapers : HeapSend(s)

SpecHeap == InitHeap /\ [][NextHeap]_vars

(***************************************************************************)
(* Scrapes one after the other over the configured locations.  main takes  *)
(* the location names as they are given, so a name may occur twice;        *)
(* boot.res is the list resolveLocations built from boot.names.  One slot  *)
(* runs the Collects, with the actions of the concurrent machine;         *)
(* ret.prevBad remembers the keys whose fetch returned an error in the     *)
(* Collect before the current one.  The degrees unit is valid.             *)
(***************************************************************************)
InitRun ==
    /\ rev \in Revs
    /\ settings \in {x \in SettingsOf(rev) : x.DegreesUnit = "F"}
    /\ now = 0
    /\ cache = [k \in Keys |-> NoItem]
    /\ proc = "serving"
    /\ started = 0
    /\ pc = [s \in Scrapers |-> "idle"]
    /\ idx = [s \in Scrapers |-> 1]
    /\ held = [s \in Scrapers |-> NoLocals]
    /\ out = [s \in Scrapers |-> <<>>]
    /\ log = [s \in Scrapers |-> NoLog]
    /\ overlapped = [s \in Scrapers |-> FALSE]
    /\ sid = [s \in Scrapers |-> 0]
    /\ requests = [k \in Keys |-> 0]
    /\ apiCallCounter = [k \in Keys |-> 0]
    /\ sentUnits = {}
    /\ stored = [k \in Keys |-> NoStore]
    /\ win = [k \in Keys |-> NoWin]
    /\ faults = 0
    /\ bad = [s \in Scrapers |-> {}]
    /\ ret = [prevBad |-> {}]
    /\ boot \in {BootedWith(names) : names \in NameLists}
    /\ non2xx = [s \in Scrapers |-> {}]

\* the registry calls Collect after the Collect before it has returned
RunStart ==
    /\ proc = "serving"
    /\ pc[1] \in {"idle", "done"}
    /\ started < MaxScrapes
    /\ started' = started + 1
    /\ sid' = [sid EXCEPT ![1] = started + 1]
    /\ pc' = [pc EXCEPT ![1] = "lookup"]
    /\ idx' = [idx EXCEPT ![1] = 1]
    /\ held' = [held EXCEPT ![1] = NoLocals]
    /\ out' = [out EXCEPT ![1] = <<>>]
    /\ log' = [log EXCEPT ![1] = NoLog]
    /\ bad' = [bad EXCEPT ![1] = {}]
    /\ non2xx' = [non2xx EXCEPT ![1] = {}]
    /\ ret' = [prevBad |-> {k \in Keys : log[1][k] = "fetchErr"}]
    /\ UNCHANGED <<rev, settings, now, cache, proc, overlapped, requests,
                   apiCallCounter, sentUnits, stored, win, faults, boot>>

\* the steps of the Collect running in the slot
NextRun ==
    \/ Tick
    \/ RunStart
    \/ \E src \in {"onecall", "pollution"} : GenLookup(1, src)
    \/ \E src \in {"onecall", "pollution"} : GenRequest(1, src)
    \/ \E src \in {"onecall", "pollution"}, h \in Heads : GenHeaders(1, src, h)
    \/ \E src \in {"onecall", "pollution"}, resp \in AllResponses,
          setres \in SetResults : GenBody(1, src, resp, setres)
    \/ \E src \in {"onecall", "pollution"} : GenSend(1, src)
    \/ MonoLookup(1)
    \/ \E src \in {"pollution", "uv"} : MonoGet(1, src)
    \/ \E src \in Sources : MonoRequest(1, src)
    \/ \E src \in Sources, res \in AllLibResults, setres \in SetResults :
          MonoAnswer(1, src, res, setres)
    \/ \E src \in Sources : MonoSend(1, src)

SpecRun == InitRun /\ [][NextRun]_vars

(***************************************************************************)
(* Properties.                                                             *)
(***************************************************************************)
\* the snapshots a scrape has sent metrics from, for one key
EmittedVals(s, k) ==
    {out[s][j].val : j \in {i \in 1..Len(out[s]) : <<out[s][i].loc, out[s][i].src>> = k}}

\* the metric names a scrape has sent
EmittedNames(s) ==
    UNION {SentNames(rev, settings, out[s][j]) : j \in 1..Len(out[s])}

DescNames == {d.name : d \in Describe(rev, settings)}

\* the locations the collector was built with
Configured == {boot.res[i].Location : i \in 1..Len(boot.res)}

\* every table a scrape has begun to send is sent to its last metric
TablesWhole(s) ==
    \A j \in 1..Len(out[s]) :
        out[s][j].n = Len(GroupNames(rev, settings, out[s][j].src))

\* the entry stored for the key is inside its TTL window
InWindow(k) == stored[k].set /\ now < stored[k].at + CacheTTL

\* C1: partial failure isolation across locations.  With two or more
\* different locations configured, when the weather fetch of a scrape fails
\* for one location, the process keeps serving, and the finished scrape has
\* sent the weather metrics of every other location whose own fetch did not
\* fail.
C1_LocationIsolation ==
    \A s \in Scrapers, loc \in Configured :
        Cardinality(Configured) >= 2 /\ <<loc, "onecall">> \in bad[s] =>
            /\ proc = "serving"
            /\ pc[s] = "done" =>
                 \A other \in Configured \ {loc} :
                     <<other, "onecall">> \notin bad[s] =>
                         /\ EmittedVals(s, <<other, "onecall">>) # {}
                         /\ Nil \notin EmittedVals(s, <<other, "onecall">>)
                         /\ TablesWhole(s)

\* C2: per-source failure isolation within a location.  When the pollution or
\* UV fetch of a scrape fails for a location whose weather snapshot the same
\* scrape obtained, the scrape has sent that location's weather metrics.
C2_SourceIsolation ==
    \A s \in Scrapers, loc \in LocNames :
        /\ log[s][<<loc, "onecall">>] \in {"fetched", "hit"}
        /\ \E src \in {"pollution", "uv"} : <<loc, src>> \in bad[s]
        => EmittedVals(s, <<loc, "onecall">>) # {}

\* C3: a cache-write failure is non-fatal for the current cycle.  When a
\* fetch for a (location, source) pair succeeded and the following Cache.Set
\* returned an error, the scrape, once it has returned, has sent that pair's
\* metrics from the fetched snapshot.
C3_SetErrorStillEmits ==
    \A s \in Scrapers, k \in Keys :
        log[s][k] = "setErr" /\ pc[s] = "done" /\ proc = "serving" =>
            EmittedVals(s, k) # {}

\* C4: idempotence within TTL.  A scrape that overlaps no other scrape and
\* finds a key inside the TTL window opened by an earlier scrape's successful
\* fetch sends for that key no other snapshot than the one the earlier scrape
\* sent, and when it has returned it has sent exactly that one.
C4_IdempotentWithinTTL ==
    \A s \in Scrapers, k \in Keys :
        /\ ~overlapped[s]
        /\ sid[s] # 0
        /\ InWindow(k)
        /\ stored[k].by # sid[s]
        /\ win[k].opener = stored[k].by
        /\ log[s][k] = "hit"
        => /\ EmittedVals(s, k) \subseteq {win[k].emitted}
           /\ pc[s] = "done" => EmittedVals(s, k) = {win[k].emitted}

\* C5: upstream call bound.  No request is issued for a key while the entry
\* stored for that key is inside its TTL window: at most one upstream call
\* per key and window, under every interleaving of scrapes.
C5_OneCallPerWindow ==
    [][\A k \in Keys : requests'[k] > requests[k] => ~InWindow(k)]_vars

\* C6: TTL boundary.  Every cache lookup of a scrape at time t finds the
\* entry stored at t0, with the value stored, when t < t0 + T, and reports
\* not-found when t >= t0 + T or nothing was stored.
C6_TTLBoundary ==
    [][\A s \in Scrapers, k \in Keys :
          log'[s][k] # log[s][k] =>
              /\ log'[s][k] = "hit" =>
                    /\ InWindow(k)
                    /\ Local(held'[s], k[2]) = stored[k].val
              /\ log'[s][k] = "miss" => ~InWindow(k)]_vars

\* a scrape that ran after the storing scrape missed the key at t0 + T
C6_Witness ==
    \E s \in Scrapers, k \in Keys :
        /\ stored[k].set
        /\ stored[k].by # sid[s]
        /\ ~overlapped[s]
        /\ now = stored[k].at + CacheTTL
        /\ Loc(s) = k[1]
        /\ log[s][k] = "miss"
        /\ pc[s] = ReqPc(k[2])

\* C7: no TTL renewal on read.  The expiry time of an entry is its insertion
\* time plus the TTL, however often it has been read.
C7_NoRenewalOnRead ==
    \A k \in Keys :
        stored[k].set => /\ cache[k].found
                         /\ cache[k].expireAt = stored[k].at + CacheTTL

\* an entry was read by a scrape after the second it was stored in
C7_Witness ==
    \E k \in Keys : stored[k].set /\ stored[k].readAt > stored[k].at

\* C8: catalog completeness.  With pollution and UV both enabled, Describe
\* enumerates exactly the 12 base weather metrics, the 9 pollution metrics
\* and the UV metric, each labelled by location.
C8_CatalogComplete ==
    settings.EnablePol /\ settings.EnableUV =>
        /\ DescNames = Range(BaseNames) \cup Range(PollutionNames) \cup Range(UVNames)
        /\ Cardinality(Describe(rev, settings)) = 22
        /\ \A d \in Describe(rev, settings) : "location" \in Range(d.labels)

\* C9: feature-flag gating.  With the pollution flag (the UV flag) disabled
\* no pollution (UV) request is issued, no pollution (UV) metric is sent, and
\* Describe does not enumerate the pollution (UV) descriptors.
C9_FlagGating ==
    /\ ~settings.EnablePol =>
          /\ \A loc \in LocNames : requests[<<loc, "pollution">>] = 0
          /\ \A s \in Scrapers : EmittedNames(s) \cap Range(PollutionNames) = {}
          /\ DescNames \cap Range(PollutionNames) = {}
    /\ ~settings.EnableUV =>
          /\ \A loc \in LocNames : requests[<<loc, "uv">>] = 0
          /\ \A s \in Scrapers : EmittedNames(s) \cap Range(UVNames) = {}
          /\ DescNames \cap Range(UVNames) = {}

\* C10: unit validation precedes networking.  The weather fetcher sends
\* units=metric for C, imperial for F and internal for K; for any other
\* degrees unit it returns an error and no snapshot, sends no request and
\* leaves the API call counter alone.
C10_UnitValidationFirst ==
    LET u == settings.DegreesUnit
        weather == {<<loc, "onecall">> : loc \in LocNames}
    IN  /\ u = "C" => sentUnits \subseteq {"metric"}
        /\ u = "F" => sentUnits \subseteq {"imperial"}
        /\ u = "K" => sentUnits \subseteq {"internal"}
        /\ u \in {"C", "F", "K"} =>
              \A k \in weather : requests[k] > 0 => sentUnits # {}
        /\ u \notin {"C", "F", "K"} =>
              /\ sentUnits = {}
              /\ \A k \in weather : requests[k] = 0 /\ apiCallCounter[k] = 0
              /\ ret.src = "onecall" => ret.kind = "err" /\ ret.val = Nil

\* the weather fetcher was called with a degrees unit that is none of C, F, K
C10_Witness ==
    /\ settings.DegreesUnit \notin {"C", "F", "K"}
    /\ ret.src = "onecall"
    /\ started > 0

\* C11: configuration errors are fatal at startup.  The process does not
\* reach the state in which it serves scrapes with a degrees unit that is
\* none of C, F, K.
C11_UnknownUnitNeverServes ==
    proc = "serving" => settings.DegreesUnit \in DOMAIN DataUnits

\* C12: location resolution is all-or-nothing.  The process serves only with
\* one Location per configured name, in configured order, and while it
\* starts the Locations resolved so far are those of the names before the
\* loop's position; after a failed resolution it never serves.
C12_ResolutionAllOrNothing ==
    /\ proc = "serving" =>
          /\ Len(boot.res) = Len(boot.names)
          /\ \A i \in 1..Len(boot.names) : boot.res[i].Location = boot.names[i]
    /\ proc = "starting" =>
          /\ Len(boot.res) = boot.idx - 1
          /\ \A i \in 1..Len(boot.res) : boot.res[i].Location = boot.names[i]

\* the process serves after resolving several names
C12_Witness ==
    /\ proc = "serving"
    /\ Len(boot.names) >= 2
    /\ boot.names[1] # boot.names[2]
    /\ Len(boot.res) = Len(boot.names)

\* the entry now stored for the key was stored by the scrape in slot s
StoredBy(s, k) == stored[k].set /\ stored[k].by = sid[s]

\* C13: response classification.  When a request of a scrape is answered
\* with a non-2xx status, the process keeps serving, and once the fetcher has
\* returned it has returned an error to Collect, which stores nothing for
\* that key and goes on.
C13_ResponseClassification ==
    \A s \in Scrapers : \A k \in non2xx[s] :
        /\ proc = "serving"
        /\ ~(pc[s] = BodyPc(k[2]) /\ Loc(s) = k[1]) =>
              /\ log[s][k] = "fetchErr"
              /\ ~StoredBy(s, k)

\* C14: no placeholder values.  A scrape whose fetch for a key failed (a
\* non-2xx status, a transport error or an unparsable body) sends no sample
\* for that key and leaves no snapshot of that fetch in the cache for later
\* scrapes to send.
C14_NoPlaceholderValues ==
    \A s \in Scrapers, k \in Keys :
        (k \in non2xx[s] \/ log[s][k] = "fetchErr") =>
            /\ EmittedVals(s, k) = {}
            /\ \A t \in Scrapers : StoredBy(s, k) => EmittedVals(t, k) = {}

\* C15: per-(location, source) cache-or-fetch.  A cache miss on a source's
\* key is always followed, in the same scrape, by the fetch for that source:
\* while a scrape holds a miss for a key, it is at that location and about to
\* run that fetch, whatever the other keys of the location did.
C15_MissLeadsToFetch ==
    \A s \in Scrapers, k \in Keys :
        log[s][k] = "miss" =>
            /\ Active(s)
            /\ Loc(s) = k[1]
            /\ pc[s] \in {ReqPc(k[2]), WaitPc(k[2]), BodyPc(k[2])}

\* C16: call accounting.  The API call counter of a key never decreases and
\* never exceeds the number of outbound requests issued for the key, and
\* whenever no request is on the network the two are equal: one increment for
\* every request.
C16_CallAccounting ==
    [][\A k \in Keys :
          /\ apiCallCounter'[k] >= apiCallCounter[k]
          /\ apiCallCounter'[k] <= requests'[k]
          /\ (\A s \in Scrapers : pc'[s] = "idle") =>
                apiCallCounter'[k] = requests'[k]]_vars

\* C17: cache key invariant.  Two different (location, source) pairs never
\* share a key; the cache holds at most one snapshot per key; and the
\* snapshot found under the key of a pair is the one last stored for that
\* pair, whatever was stored for the other pair.
C17_KeyInvariant ==
    /\ ret.a # ret.b =>
          CacheKey(rev, ret.a[1], ret.a[2]) # CacheKey(rev, ret.b[1], ret.b[2])
    /\ \A e1, e2 \in ret.store : e1.key = e2.key => e1 = e2
    /\ \A x \in ret.last :
          KeyStoreGet(ret.store, CacheKey(rev, x[1][1], x[1][2])) = {x[2]}

\* snapshots are stored for two sources of one location
C17_Witness ==
    /\ ret.a[1] = ret.b[1]
    /\ ret.a[1] # <<>>
    /\ ret.a[2] # ret.b[2]
    /\ Cardinality(ret.last) = 2

\* C18: no generation mixing.  All samples a scrape has sent for the key
\* carry one and the same snapshot, and a finished scrape that sent any has
\* sent one sample per metric of the table.
C18_NoGenerationMixing ==
    \A s \in Scrapers :
        /\ \A i, j \in 1..Len(out[s]) : out[s][i].val = out[s][j].val
        /\ \A i \in 1..Len(out[s]) : out[s][i].val # Nil
        /\ pc[s] = "done" => Len(out[s]) \in {0, Len(oneCallMetrics(settings))}

\* a scrape is in the middle of its extraction while the cache already holds
\* a snapshot newer than the one it is sending
C18_Witness ==
    \E s \in Scrapers :
        /\ pc[s] = "sendW"
        /\ Len(out[s]) >= 1
        /\ cache[EmitKey].found
        /\ cache[EmitKey].val # out[s][1].val
        /\ ~Expired(cache[EmitKey], now)

\* a struct whose fields all carry the reading of one upstream answer (0
\* when the answer was JSON without the data)
Whole(v) == \E n \in 0..(MaxCalls * MaxNames) : v = [f \in Range(HeapFields) |-> n]

\* C19: cache atomicity under overlapping scrapes.  At every moment a get on
\* the key returns not-found, or a pointer that an earlier set on the key was
\* given, leading to a struct that is whole and is as it was at that set;
\* and a scrape that took its pointer from a get has read, field after field,
\* one whole value.  The collector takes no lock.
C19_CacheAtomicity ==
    /\ LET r == CacheGet(cache, HeapKey, now)
       IN  \/ r.err = "notFound" /\ r.val = Nil
           \/ /\ r.err = "nil"
              /\ r.val # Nil
              /\ Whole(ret.heap[Deref(r.val)])
              /\ [addr |-> Deref(r.val), val |-> ret.heap[Deref(r.val)]] \in ret.passed
    /\ \A s \in Scrapers :
          log[s][HeapKey] = "hit" =>
              /\ \A i, j \in 1..Len(out[s]) : out[s][i] = out[s][j]
              /\ pc[s] = "sendW" =>
                    /\ [addr |-> Deref(held[s].w), val |-> ret.heap[Deref(held[s].w)]]
                           \in ret.passed
                    /\ \A i \in 1..Len(out[s]) :
                           out[s][i] = ret.heap[Deref(held[s].w)][HeapFields[i]]

\* two overlapping scrapes missed and each gave Cache.Set a struct of its own;
\* the second set replaced the pointer of the first, and a third scrape took
\* that pointer from a get and reads through it while the first scrape is
\* still reading its own struct
C19_Witness ==
    \E s, t \in Scrapers :
        /\ s # t
        /\ Cardinality(ret.passed) = 2
        /\ log[s][HeapKey] = "fetched" /\ pc[s] = "sendW" /\ Len(out[s]) = 1
        /\ log[t][HeapKey] = "hit" /\ pc[t] = "sendW" /\ Len(out[t]) = 1
        /\ held[s].w # held[t].w
        /\ CacheGet(cache, HeapKey, now).val = held[t].w

\* C20: fetcher totality.  Whatever the transport outcome and the body, a
\* fetcher call returns either a snapshot and no error or no snapshot and an
\* error (so also for a malformed body), and the process keeps running.
C20_FetcherTotality ==
    /\ proc = "serving"
    /\ ret.kind \in {"none", "ok", "err"}
    /\ ret.kind = "ok" => ret.val # Nil
    /\ ret.kind = "err" => ret.val = Nil

\* C22: no retry inside a scrape.  A step issues at most one request for a
\* key, and only on behalf of a running Collect that has not requested the
\* key; the Collect then waits for the answer and its body, what the
\* request came to is put on its record when the fetcher returns and stays
\* there until the Collect ends, so a Collect issues at most one request per
\* (location, source), whether it succeeds or fails.
C22_NoRetryInScrape ==
    [][\A k \in Keys :
          /\ requests'[k] <= requests[k] + 1
          /\ requests'[k] > requests[k] =>
                \E s \in Scrapers :
                    /\ Active(s)
                    /\ Loc(s) = k[1]
                    /\ log[s][k] \in {"none", "miss"}
                    /\ pc[s] = ReqPc(k[2])
                    /\ pc'[s] = WaitPc(k[2])
          /\ \A s \in Scrapers :
                /\ (/\ pc[s] \in {WaitPc(k[2]), BodyPc(k[2])}
                    /\ Loc(s) = k[1]
                    /\ pc'[s] \notin {WaitPc(k[2]), BodyPc(k[2])}) =>
                      \/ log'[s][k] \in {"fetched", "fetchErr", "setErr"}
                      \/ proc' # "serving"
                /\ (log[s][k] \in {"fetched", "fetchErr", "setErr"} /\ sid'[s] = sid[s])
                      => log'[s][k] = log[s][k]]_vars

\* a finished Collect requested one key once and failed, another once and
\* succeeded
C22_Witness ==
    \E s \in Scrapers, k1, k2 \in Keys :
        /\ pc[s] = "done"
        /\ started = 1
        /\ log[s][k1] = "fetchErr" /\ requests[k1] = 1
        /\ log[s][k2] = "fetched" /\ requests[k2] = 1

\* C24: snapshots are non-nil at extraction.  Whenever the Collect of
\* collector.go is at the emission step of a location, the pollution snapshot
\* (when pollution is enabled) and the UV snapshot (when UV is enabled) it
\* dereferences there are not nil.
C24_SnapshotsNonNil ==
    \A s \in Scrapers :
        rev = "collector.go" /\ pc[s] \in {"sendW", "sendP", "sendU"} =>
            /\ settings.EnablePol => held[s].pd # Nil
            /\ settings.EnableUV => held[s].uuv # Nil

\* C27: a failed fetch leaves the cache unchanged.  A step changes the entry
\* of a key only when the fetch a Collect was waiting for has just succeeded
\* for that key, and then the entry holds the snapshot that fetch returned; a
\* step in which a fetch returns an error creates, replaces and removes no
\* entry.
C27_FailedFetchKeepsCache ==
    [][\A k \in Keys :
          /\ cache'[k] # cache[k] =>
                \E s \in Scrapers :
                    /\ pc[s] \in {WaitPc(k[2]), BodyPc(k[2])} /\ Loc(s) = k[1]
                    /\ log[s][k] # "fetched" /\ log'[s][k] = "fetched"
                    /\ cache'[k].found
                    /\ cache'[k].val \in {Ptr(held[s].req), Ptr(0)}
                    /\ cache'[k].val = Local(held'[s], k[2])
          /\ \A s \in Scrapers :
                log[s][k] # "fetchErr" /\ log'[s][k] = "fetchErr" =>
                    cache'[k] = cache[k]]_vars

\* the fetch of a Collect failed for a key whose entry, stored meanwhile by
\* the other Collect, is still the one in the cache
C27_Witness ==
    \E s, t \in Scrapers, k \in Keys :
        /\ s # t
        /\ log[s][k] = "fetchErr"
        /\ stored[k].set /\ stored[k].by = sid[t]
        /\ cache[k].found /\ cache[k].val = stored[k].val

\* C28: emitted metrics are advertised.  Every metric name a Collect has sent
\* a sample of is the name of a descriptor written by Describe, for every
\* setting of the pollution and UV flags.
C28_EmittedAdvertised ==
    \A s \in Scrapers : EmittedNames(s) \subseteq DescNames

\* C30: scrape termination.  A Collect that has begun is never cut short: the
\* process stays alive while it runs, it visits the configured locations one
\* after the other in configured order, and when it has returned it has
\* visited every one of them, whatever hits, misses and failures occurred
\* (the names configured being different from one another).
C30_ScrapeTermination ==
    LET visited(i) == log[1][<<boot.res[i].Location, "onecall">>] # "none"
    IN  (\A i, j \in 1..Len(boot.res) :
            boot.res[i].Location = boot.res[j].Location => i = j) =>
            /\ Active(1) => proc = "serving"
            /\ Active(1) => \A i \in 1..Len(boot.res) :
                                /\ i < idx[1] => visited(i)
                                /\ i > idx[1] => ~visited(i)
            /\ pc[1] = "done" => \A i \in 1..Len(boot.res) : visited(i)

\* the snapshot field the catalogue gives for a numeric weather metric
C23_Field(name) ==
    CASE name = "openweather_temperature" -> "Temp"
      [] name = "openweather_humidity" -> "Humidity"
      [] name = "openweather_feelslike" -> "FeelsLike"
      [] name = "openweather_pressure" -> "Pressure"
      [] name = "openweather_windspeed" -> "WindSpeed"
      [] name = "openweather_rain1h" -> "Rain"
      [] name = "openweather_snow1h" -> "Snow"
      [] name = "openweather_winddegree" -> "WindDeg"
      [] name = "openweather_cloudiness" -> "Clouds"
      [] name = "openweather_sunrise" -> "Sunrise"
      [] name = "openweather_sunset" -> "Sunset"
      [] name = "openweather_ultraviolet_index" -> "UVI"

\* C23: extraction is a pure function of (snapshot, location name).  Every
\* sample sent has the value of the snapshot field its metric stands for and
\* the label location = the configured name; openweather_currentconditions
\* has value 0 and a second label, the description of the last element of
\* the snapshot's weather list, or "" when the list is empty; no metric is
\* sent twice, and the snapshot is the one held from the start.
C23_ExtractionPure ==
    \A s \in Scrapers : \A i \in 1..Len(out[s]) :
        LET x == out[s][i]
            d == Deref(held[s].w)
            ws == d.Weather
        IN  /\ x.labels[1] = Loc(s)
            /\ IF x.name = "openweather_currentconditions"
               THEN /\ x.value = 0
                    /\ x.labels = <<Loc(s), IF ws = <<>> THEN "" ELSE ws[Len(ws)]>>
               ELSE /\ x.value = d.num[C23_Field(x.name)]
                    /\ x.labels = <<Loc(s)>>
            /\ \A j \in 1..Len(out[s]) : out[s][j].name = x.name => j = i

\* every weather metric was sent from a snapshot whose fields differ and
\* whose weather list has two different descriptions
C23_Witness ==
    \E s \in Scrapers :
        /\ pc[s] = "done"
        /\ Len(out[s]) = Len(GroupNames(rev, settings, "onecall"))
        /\ LET d == Deref(held[s].w)
           IN  /\ Len(d.Weather) = 2
               /\ d.Weather[1] # d.Weather[2]
               /\ d.num["Temp"] # d.num["Humidity"]
               /\ d.num["Sunrise"] # d.num["Sunset"]

\* C25: the cache-hit branch is taken only when a value is present.  For
\* every answer Cache.Get gives that carries no value, the branch taken is
\* the miss: no type assertion runs on the nil value and the process keeps
\* serving.
C25_HitOnlyWithValue ==
    ret.got.kind # "none" /\ ret.got.val = Nil =>
        /\ ret.got.kind = "miss"
        /\ proc = "serving"

\* with one pair stored, a Cache.Get for the other pair was answered
\* not-found, with no value, and took the miss branch
C25_Witness ==
    /\ ret.store # {}
    /\ ret.got.kind = "miss"
    /\ ret.got.val = Nil
    /\ ret.got.err = "notFound"
    /\ KeyStoreGet(ret.store, CacheKey(rev, ret.got.pair[1], ret.got.pair[2])) = {}
    /\ proc = "serving"

\* C26: typed cache.  The value stored under the key of a (location, source)
\* pair has the snapshot type that the hit branch asserts for that source
\* (and the type of the source's gauges), so no type assertion on a cache
\* hit fails.
C26_TypedCache ==
    /\ \A p \in {ret.a, ret.b} :
          \A v \in KeyStoreGet(ret.store, CacheKey(rev, p[1], p[2])) :
              /\ v.type = AssertedType(rev, p[2])
              /\ rev # "collector.go" => v.type = GaugeType(p[2])
    /\ ret.got.kind # "typeAssert"

\* two sources of one location are stored and a Cache.Get hit one of them
C26_Witness ==
    /\ ret.a[1] = ret.b[1]
    /\ ret.a[2] # ret.b[2]
    /\ Cardinality(ret.store) = 2
    /\ ret.got.kind = "hit"
    /\ ret.got.pair = ret.b

\* the names configured are different from one another
DistinctNames ==
    \A i, j \in 1..Len(boot.res) : boot.res[i].Location = boot.res[j].Location => i = j

\* C21: recovery on the next scrape.  When the fetch of a (location, source)
\* returned an error in the Collect before the current one and no request and
\* no Cache.Set of the current Collect fails, the process keeps serving and
\* the current Collect, once it has returned, has fetched that pair again and
\* sent its metrics (the names configured being different from one another).
C21_RecoveryNextScrape ==
    \A k \in ret.prevBad :
        /\ DistinctNames
        /\ bad[1] = {}
        /\ \A k2 \in Keys : log[1][k2] # "setErr"
        =>
            /\ proc = "serving"
            /\ pc[1] = "done" =>
                  /\ log[1][k] = "fetched"
                  /\ EmittedVals(1, k) # {}
                  /\ TablesWhole(1)

\* C29: all-or-nothing emission per (location, source).  Between two
\* iterations of a Collect every table it has begun to send for a location is
\* sent to its last metric, and the Collect sends no table twice for one
\* location: no two samples have the same metric name and the same location.
C29_AllOrNothing ==
    /\ pc[1] \in {"lookup", "done"} => TablesWhole(1)
    /\ \A i, j \in 1..Len(out[1]) :
          out[1][i].loc = out[1][j].loc /\ out[1][i].src = out[1][j].src => i = j

====
